---- MODULE Spec2Model ----
(***************************************************************************)
(* A model of the scaffold CLI's template resolution pipeline              *)
(* (cli/internal/source, cli/internal/registry, cli/cmd).                  *)
(*                                                                         *)
(* Go strings are modelled as sequences of one-character strings, so that  *)
(* strings.Index, strings.LastIndex, strings.HasPrefix and                 *)
(* strings.ReplaceAll are computed the way the code computes them.         *)
(***************************************************************************)
EXTENDS Integers, Sequences, FiniteSets, TLC

VARIABLES
  uri,           \* source.Parse: the argument of the call under study
  parsed,        \* source.Parse: its result (NotCalled before the call)
  overrideEnv,   \* registry: SCAFFOLD_INDEX is set to a non-empty path
  overrideFile,  \* registry: the file SCAFFOLD_INDEX names
  cache,         \* registry: <cacheDir>/templates.yaml, with its age (now - ModTime)
  embedded,      \* registry: the templates.yaml embedded in the binary
  index,         \* registry: Registry.index of the current Registry
  trail,         \* registry: the tiers the last ensureLoaded consulted, with outcomes
  lastSave,      \* registry: outcome of the last saveToCache ("none" before any)
  result,        \* registry: what the last Resolve or List returned
  calls,         \* registry: number of Resolve and List calls made so far
  fs,            \* the directories that exist, as absolute paths
  homeOK,        \* os.UserHomeDir succeeds
  cwdOK,         \* os.Getwd succeeds
  layerUri,      \* the resolved source string of the layer in hand
  layerStage,    \* how far the layer got: resolved, parsed, fetched, or where it aborted
  layerSrc,      \* the Source that Parse returned for the layer
  layerRes,      \* what Fetch returned for the layer
  layers,        \* number of layers started so far
  clones,        \* number of times git clone was run
  history,       \* the git fetches that succeeded: source, returned path, cloned or not
  mdoc,          \* config: the scaffold.yaml of the directory handed to LoadManifest
  mres,          \* config: what LoadManifest returned (NotLoaded before the call)
  tmplKind,      \* template: what the string in hand is, a file's content or a relative path
  tmplText,      \* template: the string in hand
  binds,         \* template: Processor.variables
  substOut,      \* template: the string after substitution (NotSubstituted before)
  templates,     \* the template directories: path |-> its scaffold.yaml and its tree
  dest,          \* the output directory: path below it |-> entry (no path: it does not exist)
  cli,           \* the command line of the run, and what the first prompts add to it
  assignLog,     \* every assignment to the variables map, in order
  fault,         \* the entry at which the file system failed the last walk of Process (0: none)
  actions,       \* manifest.Actions of the run: the base manifest's, then what is appended
  shown,         \* the actions printed at the end of the run
  race           \* two invocations of fetchGit on one source, and the cache path they share

parseVars == <<uri, parsed>>

regVars == <<overrideEnv, overrideFile, cache, embedded, index, trail, lastSave, result, calls>>

fetchVars == <<fs, homeOK, cwdOK, layerUri, layerStage, layerSrc, layerRes, layers, clones,
               history>>

manifestVars == <<mdoc, mres>>

substVars == <<tmplKind, tmplText, binds, substOut>>

\* the state of the stages that follow the fetch
runVars == <<templates, dest, cli, assignLog, fault, actions, shown>>

raceVars == <<race>>

laterVars == <<manifestVars, substVars, runVars, raceVars>>

\* the state of resolve, parse and fetch
earlierVars == <<parseVars, regVars, fetchVars>>

nonParseVars == <<regVars, fetchVars, laterVars>>

nonRegVars == <<parseVars, fetchVars, laterVars>>

nonFetchVars == <<parseVars, regVars, laterVars>>

vars == <<uri, parsed, overrideEnv, overrideFile, cache, embedded, index, trail, lastSave,
          result, calls, fs, homeOK, cwdOK, layerUri, layerStage, layerSrc, layerRes, layers,
          clones, history, mdoc, mres, tmplKind, tmplText, binds, substOut, templates, dest,
          cli, assignLog, fault, actions, shown, race>>

----------------------------------------------------------------------------
(* Bounds of the model *)

\* longest free suffix appended to a source URI
MaxTail == 5

\* number of Resolve and List calls followed
MaxCalls == 2

\* oldest cache age told apart, in hours
MaxAge == 36

\* hours that pass in one step of the clock
TickHours == 12

\* longest path of a file source
MaxPathLen == 4

\* number of layers (base template, modules, later runs) followed
MaxLayers == 3

\* longest file content handed to substituteVariables
MaxTextLen == 6

\* longest relative path handed to substituteInPath
MaxRelLen == 7

----------------------------------------------------------------------------
(* strings *)

Alphabet == {"a", "/", "#", ":"}

Digits == {"0", "1", "2", "3", "4", "5", "6", "7", "8", "9"}

SeqsUpTo(n) == UNION {[1..k -> Alphabet] : k \in 0..n}

HasPrefix(s, p) == Len(s) >= Len(p) /\ SubSeq(s, 1, Len(p)) = p

TrimPrefix(s, p) == IF HasPrefix(s, p) THEN SubSeq(s, Len(p) + 1, Len(s)) ELSE s

\* the positions (1-based) at which sub occurs in s
Occurrences(s, sub) ==
  {i \in 1..(Len(s) - Len(sub) + 1) : SubSeq(s, i, i + Len(sub) - 1) = sub}

Min(S) == CHOOSE x \in S : \A y \in S : x <= y

Max(S) == CHOOSE x \in S : \A y \in S : x >= y

\* strings.Index, 1-based; 0 stands for Go's -1
Index(s, sub) == IF Occurrences(s, sub) = {} THEN 0 ELSE Min(Occurrences(s, sub))

\* strings.LastIndex, 1-based; 0 stands for Go's -1
LastIndex(s, sub) == IF Occurrences(s, sub) = {} THEN 0 ELSE Max(Occurrences(s, sub))

Contains(s, sub) == Occurrences(s, sub) # {}

\* s[:i] and s[i:] of Go for a 1-based match position i of a k-character separator
Before(s, i) == SubSeq(s, 1, i - 1)

After(s, i, k) == SubSeq(s, i + k, Len(s))

\* strings.ReplaceAll(s, old, new) for a one-character old
ReplaceAll(s, old, new) == [i \in 1..Len(s) |-> IF s[i] = old THEN new ELSE s[i]]

----------------------------------------------------------------------------
(* string literals of the source *)

sGithub == <<"g", "i", "t", "h", "u", "b", ":">>
sGitlab == <<"g", "i", "t", "l", "a", "b", ":">>
sBitbucket == <<"b", "i", "t", "b", "u", "c", "k", "e", "t", ":">>
sGit == <<"g", "i", "t", ":">>
sFile == <<"f", "i", "l", "e", ":">>
sHttp == <<"h", "t", "t", "p", ":", "/", "/">>
sHttps == <<"h", "t", "t", "p", "s", ":", "/", "/">>

sGithubBase == <<"h", "t", "t", "p", "s", ":", "/", "/", "g", "i", "t", "h", "u", "b", ".", "c", "o", "m", "/">>
sGitlabBase == <<"h", "t", "t", "p", "s", ":", "/", "/", "g", "i", "t", "l", "a", "b", ".", "c", "o", "m", "/">>
sBitbucketBase == <<"h", "t", "t", "p", "s", ":", "/", "/", "b", "i", "t", "b", "u", "c", "k", "e", "t", ".", "o", "r", "g", "/">>

sGithubHost == <<"g", "i", "t", "h", "u", "b", ".", "c", "o", "m">>
sGitlabHost == <<"g", "i", "t", "l", "a", "b", ".", "c", "o", "m">>
sBitbucketHost == <<"b", "i", "t", "b", "u", "c", "k", "e", "t", ".", "o", "r", "g">>

sHash == <<"#">>
sSlashSlash == <<"/", "/">>
sEmpty == <<>>

----------------------------------------------------------------------------
(* package source: Source and Parse *)

TypeGit == "git"
TypeFile == "file"
TypeURL == "url"

NoSource == [Type |-> "none"]

NotCalled == [called |-> FALSE]

Failure(e) == [called |-> TRUE, err |-> e, src |-> NoSource]

Success(s) == [called |-> TRUE, err |-> "", src |-> s]

\* provider detection of parseGitSource, on the URL left after the ref and
\* the subdir were cut off
DetectProvider(u) ==
  IF Contains(u, sGithubHost) THEN "github"
  ELSE IF Contains(u, sGitlabHost) THEN "gitlab"
  ELSE IF Contains(u, sBitbucketHost) THEN "bitbucket"
  ELSE ""

\* the ref cut: strings.LastIndex(uri, "#")
CutRef(u) ==
  LET idx == LastIndex(u, sHash)
  IN  IF idx # 0 THEN [ref |-> After(u, idx, 1), rest |-> Before(u, idx)]
      ELSE [ref |-> sEmpty, rest |-> u]

\* the subdir cut: strings.Index(uri, "//"), the first "//" of the whole string
CutSubdir(u) ==
  LET idx == Index(u, sSlashSlash)
  IN  IF idx # 0 THEN [subdir |-> After(u, idx, 2), rest |-> Before(u, idx)]
      ELSE [subdir |-> sEmpty, rest |-> u]

parseGitSource(u) ==
  LET r == CutRef(u)
      d == CutSubdir(r.rest)
  IN  Success([Type |-> TypeGit, URI |-> u, URL |-> d.rest, Ref |-> r.ref,
               Subdir |-> d.subdir, Provider |-> DetectProvider(d.rest)])

parseFileSource(path) ==
  Success([Type |-> TypeFile, URI |-> path, URL |-> path, Ref |-> sEmpty,
           Subdir |-> sEmpty, Provider |-> ""])

(* net/url, as parseURLSource uses it. The scheme of the argument is "http" or
   "https" (Parse calls parseURLSource for no other string). *)

sPercent23 == <<"%", "2", "3">>

sColon == <<":">>

sSlash == <<"/">>

\* strings.Cut(rawURL, "#"): the part before the first "#" and the part after
UrlBody(u) == IF Index(u, sHash) = 0 THEN u ELSE Before(u, Index(u, sHash))

UrlFragment(u) == IF Index(u, sHash) = 0 THEN sEmpty ELSE After(u, Index(u, sHash), 1)

UrlScheme(u) == Before(u, Index(u, sColon))

\* what follows "scheme://" in the body
UrlAfterScheme(u) == After(UrlBody(u), Index(UrlBody(u), sSlashSlash), 2)

\* the authority ends at the first "/"
UrlHost(u) ==
  LET r == UrlAfterScheme(u)
  IN  IF Index(r, sSlash) = 0 THEN r ELSE Before(r, Index(r, sSlash))

UrlPath(u) ==
  LET r == UrlAfterScheme(u)
  IN  IF Index(r, sSlash) = 0 THEN sEmpty ELSE SubSeq(r, Index(r, sSlash), Len(r))

\* validOptionalPort: what follows the last ":" of the host is digits only
ValidOptionalPort(host) ==
  LET i == LastIndex(host, sColon)
  IN  i = 0 \/ \A k \in (i + 1)..Len(host) : host[k] \in Digits

RECURSIVE EscapeFragment(_)
\* escape(fragment, encodeFragment) on the alphabet: "#" becomes "%23"
EscapeFragment(f) ==
  IF f = sEmpty THEN sEmpty
  ELSE (IF Head(f) = "#" THEN sPercent23 ELSE <<Head(f)>>) \o EscapeFragment(Tail(f))

\* URL.String() of the parsed URL
UrlString(u) ==
  UrlScheme(u) \o sColon
    \o (IF UrlHost(u) # sEmpty \/ UrlPath(u) # sEmpty THEN sSlashSlash \o UrlHost(u) ELSE sEmpty)
    \o UrlPath(u)
    \o (IF UrlFragment(u) # sEmpty THEN sHash \o EscapeFragment(UrlFragment(u)) ELSE sEmpty)

\* url.Parse: the error of parseHost is the only one the alphabet can raise
UrlParseOK(u) == ValidOptionalPort(UrlHost(u))

parseURLSource(u) ==
  IF ~UrlParseOK(u) THEN Failure("invalid URL")
  ELSE Success([Type |-> TypeURL, URI |-> u, URL |-> UrlString(u), Ref |-> sEmpty,
                Subdir |-> sEmpty, Provider |-> ""])

\* Parse with the "http://" alternative of the plain-URL test dropped
ParseHttpsOnly(u) ==
  IF u = sEmpty THEN Failure("empty source URI")
  ELSE IF HasPrefix(u, sGithub) THEN parseGitSource(sGithubBase \o TrimPrefix(u, sGithub))
  ELSE IF HasPrefix(u, sGitlab) THEN parseGitSource(sGitlabBase \o TrimPrefix(u, sGitlab))
  ELSE IF HasPrefix(u, sBitbucket) THEN parseGitSource(sBitbucketBase \o TrimPrefix(u, sBitbucket))
  ELSE IF HasPrefix(u, sGit) THEN parseGitSource(TrimPrefix(u, sGit))
  ELSE IF HasPrefix(u, sFile) THEN parseFileSource(TrimPrefix(u, sFile))
  ELSE IF HasPrefix(u, sHttps) THEN parseURLSource(u)
  ELSE Failure("unknown source format")

Parse(u) ==
  IF u = sEmpty THEN Failure("empty source URI")
  ELSE IF HasPrefix(u, sGithub) THEN parseGitSource(sGithubBase \o TrimPrefix(u, sGithub))
  ELSE IF HasPrefix(u, sGitlab) THEN parseGitSource(sGitlabBase \o TrimPrefix(u, sGitlab))
  ELSE IF HasPrefix(u, sBitbucket) THEN parseGitSource(sBitbucketBase \o TrimPrefix(u, sBitbucket))
  ELSE IF HasPrefix(u, sGit) THEN parseGitSource(TrimPrefix(u, sGit))
  ELSE IF HasPrefix(u, sFile) THEN parseFileSource(TrimPrefix(u, sFile))
  ELSE IF HasPrefix(u, sHttp) \/ HasPrefix(u, sHttps) THEN parseURLSource(u)
  ELSE Failure("unknown source format")

----------------------------------------------------------------------------
(* package registry: the index and the files that hold it *)

\* CacheExpiry = 24 * time.Hour, in hours
CacheExpiry == 24

RegNames == {"a", "b", "c"}

\* a name that no index knows
sPassThrough == "z"

OfficialSource == ("a" :> "off_a") @@ ("b" :> "off_b") @@ ("c" :> "off_c")

CommunitySource == ("a" :> "com_a") @@ ("b" :> "com_b") @@ ("c" :> "com_c")

OffEntry(n) == [Source |-> OfficialSource[n], Description |-> "official"]

ComEntry(n) == [Source |-> CommunitySource[n], Description |-> "community"]

\* an Index whose official and community maps have the given keys
MakeIndex(ver, off, com, al) ==
  [Version |-> ver,
   Official |-> [n \in off |-> OffEntry(n)],
   Community |-> [n \in com |-> ComEntry(n)],
   Aliases |-> al]

NoAliases == [n \in {} |-> "a"]

\* aliases {a: b, b: c}, official {c}
IdxChain(ver) == MakeIndex(ver, {"c"}, {}, ("a" :> "b") @@ ("b" :> "c"))

\* official {b, c}, community {a, b}, aliases {a: c}
IdxMixed(ver) == MakeIndex(ver, {"b", "c"}, {"a", "b"}, ("a" :> "c"))

\* what an empty YAML document unmarshals to
IdxEmpty == MakeIndex("", {}, {}, NoAliases)

\* the indices the tiers hold, told apart by their version
OverrideIndices == {IdxMixed("dev")}

CachedIndices == {IdxEmpty, IdxChain("1")}

RemoteIndices == {IdxChain("2"), IdxMixed("3")}

EmbeddedIndex == IdxChain("0")

\* file contents: a YAML document of an index (extra: it has keys the Index
\* struct does not know), or bytes yaml.Unmarshal rejects
Garbage == [kind |-> "garbage"]

Absent == [kind |-> "absent"]

Yaml(idx, extra) == [kind |-> "yaml", body |-> idx, extra |-> extra]

\* yaml.Unmarshal(data, &idx): unknown keys are dropped
Unmarshal(doc) ==
  IF doc.kind = "yaml" THEN [ok |-> TRUE, idx |-> doc.body] ELSE [ok |-> FALSE]

\* yaml.Marshal(idx): the fields of the struct and nothing else
Marshal(idx) == Yaml(idx, FALSE)

NoCache == [present |-> FALSE]

CacheFile(doc, age) == [present |-> TRUE, doc |-> doc, age |-> age]

NilIndex == [set |-> FALSE]

Loaded(idx) == [set |-> TRUE, idx |-> idx]

\* loadFromFile: os.ReadFile, then yaml.Unmarshal
loadFromFile(file) == Unmarshal(file)

\* loadFromCache without the expiry test
loadFromCacheAnyAge(c) == IF ~c.present THEN [ok |-> FALSE] ELSE Unmarshal(c.doc)

\* loadFromCache: os.Stat, the expiry test, os.ReadFile, yaml.Unmarshal
loadFromCache(c) ==
  IF ~c.present THEN [ok |-> FALSE]
  ELSE IF c.age > CacheExpiry THEN [ok |-> FALSE]
  ELSE Unmarshal(c.doc)

\* the remote: unreachable (or a status other than 200), or a response body
Down == [kind |-> "down"]

fetchRemote(remote) == Unmarshal(remote)

\* a saveToCache that writes nothing
saveToCacheSkipped(c, idx, w) == c

\* saveToCache: w is what the file system does with the write: "ok", "failed"
\* (MkdirAll or the open fails, the file is left as it was) or "torn" (the
\* file is truncated and the write fails)
saveToCache(c, idx, w) ==
  IF w = "ok" THEN CacheFile(Marshal(idx), 0)
  ELSE IF w = "torn" THEN CacheFile(Garbage, 0)
  ELSE c

SaveOutcomes == {"ok", "failed", "torn"}

NoSave == [outcome |-> "none"]

Step(tier, ok) == [tier |-> tier, ok |-> ok]

\* the tiers after the override, with every index that is loaded written to
\* the cache
ensureLoadedSavingAll(remote, w) ==
  LET c == loadFromCache(cache)
      f == fetchRemote(remote)
      e == Unmarshal(embedded)
  IN  IF c.ok
      THEN [index |-> Loaded(c.idx), cache |-> saveToCache(cache, c.idx, w),
            save |-> lastSave, err |-> FALSE, trail |-> <<Step("cache", TRUE)>>]
      ELSE IF f.ok
      THEN [index |-> Loaded(f.idx), cache |-> saveToCache(cache, f.idx, w),
            save |-> [outcome |-> w, idx |-> f.idx], err |-> FALSE,
            trail |-> <<Step("cache", FALSE), Step("remote", TRUE)>>]
      ELSE [index |-> IF e.ok THEN Loaded(e.idx) ELSE NilIndex,
            cache |-> IF e.ok THEN saveToCache(cache, e.idx, w) ELSE cache,
            save |-> lastSave, err |-> ~e.ok,
            trail |-> <<Step("cache", FALSE), Step("remote", FALSE), Step("embedded", e.ok)>>]

\* ensureLoaded with the override tier skipped
ensureLoadedNoOverride(remote, w) ==
  LET c == loadFromCache(cache)
      f == fetchRemote(remote)
      e == Unmarshal(embedded)
  IN  IF c.ok
      THEN [index |-> Loaded(c.idx), cache |-> cache, save |-> lastSave, err |-> FALSE,
            trail |-> <<Step("cache", TRUE)>>]
      ELSE IF f.ok
      THEN [index |-> Loaded(f.idx), cache |-> saveToCache(cache, f.idx, w),
            save |-> [outcome |-> w, idx |-> f.idx], err |-> FALSE,
            trail |-> <<Step("cache", FALSE), Step("remote", TRUE)>>]
      ELSE [index |-> IF e.ok THEN Loaded(e.idx) ELSE NilIndex, cache |-> cache,
            save |-> lastSave, err |-> ~e.ok,
            trail |-> <<Step("cache", FALSE), Step("remote", FALSE), Step("embedded", e.ok)>>]

\* an ensureLoaded that goes through the tiers at every call
ensureLoadedEveryCall(remote, w) ==
  IF overrideEnv /\ loadFromFile(overrideFile).ok
  THEN [index |-> Loaded(loadFromFile(overrideFile).idx), cache |-> cache,
        save |-> lastSave, err |-> FALSE, trail |-> <<Step("override", TRUE)>>]
  ELSE LET L == ensureLoadedNoOverride(remote, w)
       IN  [L EXCEPT !.trail =
              (IF overrideEnv THEN <<Step("override", FALSE)>> ELSE <<>>) \o L.trail]

\* ensureLoaded: the state it leaves (index, cache file), its error, and the
\* tiers it consulted
ensureLoaded(remote, w) ==
  IF index.set
  THEN [index |-> index, cache |-> cache, save |-> lastSave, err |-> FALSE, trail |-> trail]
  ELSE IF overrideEnv /\ loadFromFile(overrideFile).ok
  THEN [index |-> Loaded(loadFromFile(overrideFile).idx), cache |-> cache,
        save |-> lastSave, err |-> FALSE, trail |-> <<Step("override", TRUE)>>]
  ELSE LET L == ensureLoadedNoOverride(remote, w)
       IN  [L EXCEPT !.trail =
              (IF overrideEnv THEN <<Step("override", FALSE)>> ELSE <<>>) \o L.trail]

\* a lookup that follows an alias of an alias
ResolveInChained(idx, name) ==
  LET n1 == IF name \in DOMAIN idx.Aliases THEN idx.Aliases[name] ELSE name
      n == IF n1 \in DOMAIN idx.Aliases THEN idx.Aliases[n1] ELSE n1
  IN  IF n \in DOMAIN idx.Official THEN idx.Official[n].Source
      ELSE IF n \in DOMAIN idx.Community THEN idx.Community[n].Source
      ELSE n

\* the lookup of Resolve in a loaded index
ResolveIn(idx, name) ==
  LET n == IF name \in DOMAIN idx.Aliases THEN idx.Aliases[name] ELSE name
  IN  IF n \in DOMAIN idx.Official THEN idx.Official[n].Source
      ELSE IF n \in DOMAIN idx.Community THEN idx.Community[n].Source
      ELSE n

\* the map List builds: the official entries, then the community entries
\* assigned over them
ListIn(idx) ==
  [k \in (DOMAIN idx.Official) \cup (DOMAIN idx.Community) |->
     IF k \in DOMAIN idx.Community THEN idx.Community[k] ELSE idx.Official[k]]

NoResult == [op |-> "none"]

\* a Resolve that hands the error of ensureLoaded to its caller
ResolveResultStrict(L, name) ==
  [op |-> "Resolve", arg |-> name, err |-> IF L.err THEN "failed to load index" ELSE "",
   val |-> IF L.err THEN "" ELSE ResolveIn(L.index.idx, name)]

ResolveResult(L, name) ==
  [op |-> "Resolve", arg |-> name, err |-> "",
   val |-> IF L.err THEN name ELSE ResolveIn(L.index.idx, name)]

ListResult(L) ==
  IF L.err THEN [op |-> "List", err |-> "failed to load embedded index", list |-> <<>>]
  ELSE [op |-> "List", err |-> "", list |-> ListIn(L.index.idx)]

----------------------------------------------------------------------------
(* paths: a path string is a sequence of characters; a directory that exists
   is an absolute path given as the sequence of its components *)

sDot == <<".">>

sDotDot == <<".", ".">>

sTildeSlash == <<"~", "/">>

sUnderscore == <<"_">>

RECURSIVE SplitFrom(_, _, _)
SplitFrom(s, i, cur) ==
  IF i > Len(s) THEN <<cur>>
  ELSE IF s[i] = "/" THEN <<cur>> \o SplitFrom(s, i + 1, sEmpty)
  ELSE SplitFrom(s, i + 1, Append(cur, s[i]))

\* the components of a path string, empty ones included
Split(s) == SplitFrom(s, 1, sEmpty)

Parent(dir) == IF dir = <<>> THEN <<>> ELSE SubSeq(dir, 1, Len(dir) - 1)

RECURSIVE CleanOnto(_, _)
\* filepath.Clean of a rooted path: ".", "" and ".." are resolved lexically
CleanOnto(dir, comps) ==
  IF comps = <<>> THEN dir
  ELSE LET c == Head(comps)
       IN  IF c = sEmpty \/ c = sDot THEN CleanOnto(dir, Tail(comps))
           ELSE IF c = sDotDot THEN CleanOnto(Parent(dir), Tail(comps))
           ELSE CleanOnto(Append(dir, c), Tail(comps))

\* filepath.Join(dir, rel) for an absolute, clean dir
Join(dir, rel) == CleanOnto(dir, Split(rel))

RECURSIVE PathString(_)
\* the string of an absolute path
PathString(dir) ==
  IF dir = <<>> THEN sSlash
  ELSE IF Len(dir) = 1 THEN sSlash \o dir[1]
  ELSE PathString(Parent(dir)) \o sSlash \o dir[Len(dir)]

\* filepath.IsAbs
IsAbs(s) == Len(s) > 0 /\ s[1] = "/"

RECURSIVE Walk(_, _, _)
\* the kernel's path resolution from directory dir: every directory on the way
\* has to exist
Walk(f, dir, comps) ==
  IF dir \notin f THEN FALSE
  ELSE IF comps = <<>> THEN TRUE
  ELSE LET c == Head(comps)
       IN  IF c = sEmpty \/ c = sDot THEN Walk(f, dir, Tail(comps))
           ELSE IF c = sDotDot THEN Walk(f, Parent(dir), Tail(comps))
           ELSE Walk(f, Append(dir, c), Tail(comps))

\* os.Stat(path) == nil for an absolute path string
Stat(f, s) == Walk(f, <<>>, Split(s))

\* every directory from the root down to dir
Prefixes(dir) == {SubSeq(dir, 1, k) : k \in 0..Len(dir)}

Home == <<<<"h">>>>

Cwd == <<<<"w">>>>

\* NewFetcher(""): <home>/.scaffold/cache
CacheDir == <<<<"h">>, <<".", "s">>, <<"c">>>>

----------------------------------------------------------------------------
(* package source: Fetcher *)

FetchOK(path) == [err |-> "", path |-> path]

FetchErr(e) == [err |-> e, path |-> sEmpty]

NotFetched == [err |-> "not fetched", path |-> sEmpty]

\* what a fetch leaves behind: the pair Fetch returns, the directories that
\* exist afterwards, and whether git clone was run
Outcome(res, f, ran) == [res |-> res, fs |-> f, ran |-> ran]

cachePathFor(src) ==
  LET safeName == ReplaceAll(ReplaceAll(ReplaceAll(src.URL, "/", "_"), ":", "_"), "@", "_")
  IN  Join(CacheDir, IF src.Ref # sEmpty THEN safeName \o sUnderscore \o src.Ref ELSE safeName)

resolveSubdir(basePath, subdir) ==
  IF subdir = sEmpty THEN basePath ELSE Join(basePath, subdir)

\* a fetchGit without the cache test: it clones every time
fetchGitAlwaysClone(f, src, mk, cl) ==
  LET cachePath == cachePathFor(src)
      made == f \cup Prefixes(Parent(cachePath))
  IN  IF mk # "ok" THEN Outcome(FetchErr("failed to create cache directory"), f, FALSE)
      ELSE IF cl # "ok" THEN Outcome(FetchErr("git clone failed"), made, TRUE)
      ELSE Outcome(FetchOK(PathString(resolveSubdir(cachePath, src.Subdir))),
                   made \cup {cachePath}, TRUE)

\* fetchGit: mk and cl are the outcomes of os.MkdirAll and of git clone, should
\* the call get that far
fetchGit(f, src, mk, cl) ==
  LET cachePath == cachePathFor(src)
      made == f \cup Prefixes(Parent(cachePath))
  IN  IF cachePath \in f
      THEN Outcome(FetchOK(PathString(resolveSubdir(cachePath, src.Subdir))), f, FALSE)
      ELSE IF mk # "ok" THEN Outcome(FetchErr("failed to create cache directory"), f, FALSE)
      ELSE IF cl # "ok" THEN Outcome(FetchErr("git clone failed"), made, TRUE)
      ELSE Outcome(FetchOK(PathString(resolveSubdir(cachePath, src.Subdir))),
                   made \cup {cachePath}, TRUE)

\* a fetchFile that skips the existence test
fetchFileNoStat(f, src, hOK, wOK) ==
  LET path == src.URL
      tilde == HasPrefix(path, sTildeSlash)
      expanded == IF tilde THEN PathString(Join(Home, SubSeq(path, 3, Len(path)))) ELSE path
      absolute == IF IsAbs(expanded) THEN expanded ELSE PathString(Join(Cwd, expanded))
  IN  IF tilde /\ ~hOK THEN Outcome(FetchErr("failed to get home directory"), f, FALSE)
      ELSE IF ~IsAbs(expanded) /\ ~wOK
      THEN Outcome(FetchErr("failed to get current directory"), f, FALSE)
      ELSE Outcome(FetchOK(absolute), f, FALSE)

\* fetchFile: hOK and wOK say whether os.UserHomeDir and os.Getwd succeed
fetchFile(f, src, hOK, wOK) ==
  LET path == src.URL
      tilde == HasPrefix(path, sTildeSlash)
      expanded == IF tilde THEN PathString(Join(Home, SubSeq(path, 3, Len(path)))) ELSE path
      absolute == IF IsAbs(expanded) THEN expanded ELSE PathString(Join(Cwd, expanded))
  IN  IF tilde /\ ~hOK THEN Outcome(FetchErr("failed to get home directory"), f, FALSE)
      ELSE IF ~IsAbs(expanded) /\ ~wOK
      THEN Outcome(FetchErr("failed to get current directory"), f, FALSE)
      ELSE IF ~Stat(f, absolute)
      THEN Outcome(FetchErr("template path does not exist"), f, FALSE)
      ELSE Outcome(FetchOK(absolute), f, FALSE)

\* a fetchURL that reports success with an empty path
fetchURLSilent(f, src) == Outcome(FetchOK(sEmpty), f, FALSE)

fetchURL(f, src) == Outcome(FetchErr("URL fetching not yet implemented"), f, FALSE)

\* Fetcher.Fetch
Fetch(f, src, hOK, wOK, mk, cl) ==
  IF src.Type = TypeGit THEN fetchGit(f, src, mk, cl)
  ELSE IF src.Type = TypeFile THEN fetchFile(f, src, hOK, wOK)
  ELSE IF src.Type = TypeURL THEN fetchURL(f, src)
  ELSE Outcome(FetchErr("unsupported source type"), f, FALSE)

\* the fetcher side, untouched
FetchIdle ==
  /\ fs = {<<>>}
  /\ homeOK = TRUE
  /\ cwdOK = TRUE
  /\ layerUri = sEmpty
  /\ layerStage = "idle"
  /\ layerSrc = NoSource
  /\ layerRes = NotFetched
  /\ layers = 0
  /\ clones = 0
  /\ history = {}

----------------------------------------------------------------------------
(* the stages that follow the fetch, before they have run *)

NotLoaded == [called |-> FALSE]

ManifestIdle ==
  /\ mdoc = Absent
  /\ mres = NotLoaded

NotSubstituted == [done |-> FALSE]

\* a map without keys
EmptyMap == [n \in {} |-> sEmpty]

SubstIdle ==
  /\ tmplKind = "none"
  /\ tmplText = sEmpty
  /\ binds = EmptyMap
  /\ substOut = NotSubstituted

NoCommand == [given |-> FALSE]

RunIdle ==
  /\ templates = EmptyMap
  /\ dest = EmptyMap
  /\ cli = NoCommand
  /\ assignLog = <<>>
  /\ fault = 0
  /\ actions = <<>>
  /\ shown = <<>>

\* no invocation of fetchGit is under way
NoRace == [on |-> FALSE]

RaceIdle == race = NoRace

LaterIdle == ManifestIdle /\ SubstIdle /\ RunIdle /\ RaceIdle

----------------------------------------------------------------------------
(* The URIs handed to Parse: a head (a prefix of the grammar, or a near miss
   of one), an optional middle, and a free tail over the alphabet. *)

sUnknown == <<"u", "n", "k", "n", "o", "w", "n", ":">>
sGithubNoColon == <<"g", "i", "t", "h", "u", "b">>
sHttpOneSlash == <<"h", "t", "t", "p", ":", "/">>
sFtp == <<"f", "t", "p", ":", "/", "/">>
sOrgRepo == <<"o", "/", "r">>
sHostPort == <<"h", ":", "1">>

Heads ==
  {sEmpty, sGithub, sGitlab, sBitbucket, sGit, sFile, sHttp, sHttps,
   sUnknown, sGithubNoColon, sHttpOneSlash, sFtp}

Middles == {sEmpty, sOrgRepo, sHostPort}

ParseInputs == {h \o m \o t : h \in Heads, m \in Middles, t \in SeqsUpTo(MaxTail)}

\* the registry side, untouched
RegIdle ==
  /\ overrideEnv = FALSE
  /\ overrideFile = Absent
  /\ cache = NoCache
  /\ embedded = Marshal(IdxEmpty)
  /\ index = NilIndex
  /\ trail = <<>>
  /\ lastSave = NoSave
  /\ result = NoResult
  /\ calls = 0

ParseIdle ==
  /\ uri = sEmpty
  /\ parsed = NotCalled

InitParse ==
  /\ uri \in ParseInputs
  /\ parsed = NotCalled
  /\ RegIdle
  /\ FetchIdle
  /\ LaterIdle

\* one call of source.Parse
DoParse ==
  /\ ~parsed.called
  /\ parsed' = Parse(uri)
  /\ UNCHANGED <<uri, nonParseVars>>

NextParse == DoParse

SpecParse == InitParse /\ [][NextParse]_vars

----------------------------------------------------------------------------
(* The registry and its environment *)

OverrideFiles == {Absent, Garbage} \cup {Yaml(i, TRUE) : i \in OverrideIndices}

\* what one attempt to load can meet on the network and, if the fetch
\* succeeds, on writing the cache
NetOutcomes ==
  {[remote |-> r, w |-> "failed"] : r \in {Down, Garbage}}
    \cup {[remote |-> Yaml(i, TRUE), w |-> w] : i \in RemoteIndices, w \in SaveOutcomes}

Ages == {k * TickHours : k \in 0..(MaxAge \div TickHours)}

CacheStates ==
  {NoCache} \cup {CacheFile(d, a) : d \in {Garbage} \cup {Marshal(i) : i \in CachedIndices},
                                   a \in Ages}

ResolveArgs == RegNames \cup {sPassThrough}

RegistryArgs == {"a", sPassThrough}

InitRegistry ==
  /\ overrideEnv \in BOOLEAN
  /\ overrideFile \in OverrideFiles
  /\ cache \in CacheStates
  /\ embedded \in {Garbage, Marshal(EmbeddedIndex)}
  /\ index = NilIndex
  /\ trail = <<>>
  /\ lastSave = NoSave
  /\ result = NoResult
  /\ calls = 0
  /\ ParseIdle
  /\ FetchIdle
  /\ LaterIdle

\* Registry.Resolve(name); remote and w are what the network and the file
\* system do if ensureLoaded gets that far
Resolve(name, remote, w) ==
  /\ calls < MaxCalls
  /\ LET L == ensureLoaded(remote, w)
     IN  /\ index' = L.index
         /\ cache' = L.cache
         /\ trail' = L.trail
         /\ lastSave' = L.save
         /\ result' = ResolveResult(L, name)
  /\ calls' = calls + 1
  /\ UNCHANGED <<overrideEnv, overrideFile, embedded, nonRegVars>>

\* Registry.List()
List(remote, w) ==
  /\ calls < MaxCalls
  /\ LET L == ensureLoaded(remote, w)
     IN  /\ index' = L.index
         /\ cache' = L.cache
         /\ trail' = L.trail
         /\ lastSave' = L.save
         /\ result' = ListResult(L)
  /\ calls' = calls + 1
  /\ UNCHANGED <<overrideEnv, overrideFile, embedded, nonRegVars>>

\* registry.New: a fresh Registry (a later run of the program)
NewRegistry ==
  /\ index.set \/ trail # <<>>
  /\ index' = NilIndex
  /\ trail' = <<>>
  /\ UNCHANGED <<overrideEnv, overrideFile, cache, embedded, lastSave, result, calls, nonRegVars>>

\* time passes: the cache file gets older
Tick ==
  /\ cache.present
  /\ cache.age + TickHours <= MaxAge
  /\ cache' = [cache EXCEPT !.age = @ + TickHours]
  /\ UNCHANGED <<overrideEnv, overrideFile, embedded, index, trail, lastSave, result, calls, nonRegVars>>

\* the user sets or unsets SCAFFOLD_INDEX, or edits the file it names
SetOverride ==
  /\ overrideEnv' \in BOOLEAN
  /\ overrideFile' \in OverrideFiles
  /\ <<overrideEnv', overrideFile'>> # <<overrideEnv, overrideFile>>
  /\ UNCHANGED <<cache, embedded, index, trail, lastSave, result, calls, nonRegVars>>

\* the cache file is removed or damaged from outside
TamperCache ==
  /\ cache.present
  /\ cache' \in {NoCache, CacheFile(Garbage, 0)}
  /\ cache' # cache
  /\ UNCHANGED <<overrideEnv, overrideFile, embedded, index, trail, lastSave, result, calls, nonRegVars>>

NextRegistry ==
  \/ \E n \in RegistryArgs, net \in NetOutcomes : Resolve(n, net.remote, net.w)
  \/ \E net \in NetOutcomes : List(net.remote, net.w)
  \/ NewRegistry
  \/ Tick
  \/ SetOverride
  \/ TamperCache

SpecRegistry == InitRegistry /\ [][NextRegistry]_vars

----------------------------------------------------------------------------
(* Lookups in every small index: the index comes from the override file *)

AliasKeys == {"a", "b"}

AliasMaps == UNION {[D -> RegNames] : D \in SUBSET AliasKeys}

LookupIndices ==
  {MakeIndex("1", off, com, al) : off \in SUBSET RegNames, com \in SUBSET RegNames,
                                  al \in AliasMaps}

InitLookup ==
  /\ overrideEnv = TRUE
  /\ overrideFile \in {Yaml(i, FALSE) : i \in LookupIndices}
  /\ cache = NoCache
  /\ embedded = Marshal(EmbeddedIndex)
  /\ index = NilIndex
  /\ trail = <<>>
  /\ lastSave = NoSave
  /\ result = NoResult
  /\ calls = 0
  /\ ParseIdle
  /\ FetchIdle
  /\ LaterIdle

NextLookup ==
  \/ \E n \in ResolveArgs : Resolve(n, Down, "failed")
  \/ List(Down, "failed")
  \/ NewRegistry

SpecLookup == InitLookup /\ [][NextLookup]_vars

----------------------------------------------------------------------------
(* One layer of a run (the base template, or a module): init hands the
   resolved source string to Parse and the Source to Fetch, and stops the
   run at the first error *)

\* the source string of a layer comes back from Registry.Resolve
StartLayer(u) ==
  /\ layerStage \in {"idle", "fetched", "abortParse", "abortFetch"}
  /\ layers < MaxLayers
  /\ layers' = layers + 1
  /\ layerUri' = u
  /\ layerStage' = "resolved"
  /\ layerSrc' = NoSource
  /\ layerRes' = NotFetched
  /\ UNCHANGED <<fs, homeOK, cwdOK, clones, history, nonFetchVars>>

\* source.Parse of the layer; an error ends the run
ParseLayer ==
  /\ layerStage = "resolved"
  /\ LET p == Parse(layerUri)
     IN  /\ layerSrc' = p.src
         /\ layerStage' = IF p.err = "" THEN "parsed" ELSE "abortParse"
  /\ UNCHANGED <<fs, homeOK, cwdOK, layerUri, layerRes, layers, clones, history, nonFetchVars>>

\* what identifies a git source to the fetcher
SourceKey(src) == [URL |-> src.URL, Ref |-> src.Ref, Subdir |-> src.Subdir]

\* fetcher.Fetch of the layer; an error ends the run
FetchLayer(mk, cl) ==
  /\ layerStage = "parsed"
  /\ LET out == Fetch(fs, layerSrc, homeOK, cwdOK, mk, cl)
     IN  /\ fs' = out.fs
         /\ layerRes' = out.res
         /\ layerStage' = IF out.res.err = "" THEN "fetched" ELSE "abortFetch"
         /\ clones' = IF out.ran THEN clones + 1 ELSE clones
         /\ history' = IF layerSrc.Type = TypeGit /\ out.res.err = ""
                       THEN history \cup {[src |-> SourceKey(layerSrc), path |-> out.res.path,
                                           ran |-> out.ran]}
                       ELSE history
  /\ UNCHANGED <<homeOK, cwdOK, layerUri, layerSrc, layers, nonFetchVars>>

\* somebody removes a directory of the cache, with all that is below it
RemoveCacheDir(d) ==
  /\ d \in fs
  /\ Len(d) > Len(CacheDir)
  /\ SubSeq(d, 1, Len(CacheDir)) = CacheDir
  /\ fs' = {e \in fs : ~(Len(e) >= Len(d) /\ SubSeq(e, 1, Len(d)) = d)}
  /\ UNCHANGED <<homeOK, cwdOK, layerUri, layerStage, layerSrc, layerRes, layers, clones,
                 history, nonFetchVars>>

----------------------------------------------------------------------------
(* Fetch of file sources, for every short path *)

PathAlphabet == {"~", "/", "a", "."}

FilePaths == UNION {[1..n -> PathAlphabet] : n \in 0..MaxPathLen}

\* the root, the home directory and the working directory exist
BaseDirs == Prefixes(Home) \cup Prefixes(Cwd)

\* directories that may or may not exist
OptionalDirs == {<<<<"a">>>>, Home \o <<<<"a">>>>, Cwd \o <<<<"a">>>>, Cwd \o <<<<"~">>>>}

InitFetchFile ==
  /\ ParseIdle
  /\ RegIdle
  /\ fs \in {BaseDirs \cup o : o \in SUBSET OptionalDirs}
  /\ homeOK \in BOOLEAN
  /\ cwdOK \in BOOLEAN
  /\ layerUri \in {sFile \o p : p \in FilePaths}
  /\ layerStage = "resolved"
  /\ layerSrc = NoSource
  /\ layerRes = NotFetched
  /\ layers = 1
  /\ clones = 0
  /\ history = {}
  /\ LaterIdle

NextFetchFile ==
  \/ ParseLayer
  \/ FetchLayer("ok", "ok")

SpecFetchFile == InitFetchFile /\ [][NextFetchFile]_vars

----------------------------------------------------------------------------
(* Runs over git, url and file sources that share one cache *)

sGitA == sGit \o <<"a">>
sGitARefA == sGit \o <<"a", "#", "a">>
sGitAUnderA == sGit \o <<"a", "_", "a">>
sGitASubA == sGit \o <<"a", "/", "/", "a">>
sGitNothing == sGit
sGithubOrgRepo == sGithub \o sOrgRepo
sHttpsA == sHttps \o <<"a">>
sHttpABadPort == sHttp \o <<"a", ":", "a">>
sFileA == sFile \o <<"a">>

FetchInputs ==
  {sGitA, sGitARefA, sGitAUnderA, sGitASubA, sGitNothing, sGithubOrgRepo, sHttpsA,
   sHttpABadPort, sFileA, sUnknown}

FetchOutcomes == {"ok", "failed"}

InitFetch ==
  /\ ParseIdle
  /\ RegIdle
  /\ fs \in {BaseDirs, BaseDirs \cup {Cwd \o <<<<"a">>>>}}
  /\ homeOK = TRUE
  /\ cwdOK = TRUE
  /\ layerUri = sEmpty
  /\ layerStage = "idle"
  /\ layerSrc = NoSource
  /\ layerRes = NotFetched
  /\ layers = 0
  /\ clones = 0
  /\ history = {}
  /\ LaterIdle

NextFetch ==
  \/ \E u \in FetchInputs : StartLayer(u)
  \/ ParseLayer
  \/ \E mk \in FetchOutcomes, cl \in FetchOutcomes : FetchLayer(mk, cl)
  \/ \E d \in fs : RemoveCacheDir(d)

SpecFetch == InitFetch /\ [][NextFetch]_vars

----------------------------------------------------------------------------
(* package config: the manifest and LoadManifest *)

\* a Variable of a manifest
VariableDecl(name, type, default, required, choices) ==
  [Name |-> name, Type |-> type, Default |-> default, Required |-> required,
   Choices |-> choices]

\* an Action of a manifest
MessageAction(msg) == [Type |-> "message", Message |-> msg, Command |-> ""]

\* an Action that is a command to run
CommandAction(cmd) == [Type |-> "command", Message |-> "", Command |-> cmd]

\* the fields of Manifest the pipeline reads
Manifest(name, type, variables, acts) ==
  [Name |-> name, Type |-> type, Variables |-> variables, Actions |-> acts]

ManifestKeys == {"name", "type", "variables", "actions"}

\* a scaffold.yaml that is a YAML mapping: body gives the value of each key it
\* has; extra says that it has keys the Manifest struct does not know
ManifestYaml(body, extra) == [kind |-> "yaml", body |-> body, extra |-> extra]

\* a scaffold.yaml that cannot be read although it is there (no permission, or
\* a directory of that name)
Unreadable == [kind |-> "unreadable"]

\* a scaffold.yaml that is well-formed YAML with a value of the wrong type (a
\* scalar where the struct has a list)
Mistyped == [kind |-> "mistyped"]

Field(body, key, zero) == IF key \in DOMAIN body THEN body[key] ELSE zero

\* yaml.Unmarshal(data, &manifest): a key the document lacks leaves the zero
\* value, a key the struct lacks is dropped
UnmarshalManifest(doc) ==
  IF doc.kind = "yaml"
  THEN [ok |-> TRUE,
        manifest |-> Manifest(Field(doc.body, "name", ""), Field(doc.body, "type", ""),
                              Field(doc.body, "variables", <<>>),
                              Field(doc.body, "actions", <<>>))]
  ELSE [ok |-> FALSE]

NoManifest == [Name |-> "nil"]

sManifestNotFound == "no scaffold.yaml found"

sManifestUnread == "failed to read manifest"

sManifestInvalid == "failed to parse manifest"

LoadFailed(e) == [called |-> TRUE, err |-> e, manifest |-> NoManifest]

LoadSucceeded(m) == [called |-> TRUE, err |-> "", manifest |-> m]

\* a LoadManifest that reports every failure as a missing file
LoadManifestOneError(doc) ==
  IF doc.kind \in {"absent", "unreadable"} THEN LoadFailed(sManifestNotFound)
  ELSE LET u == UnmarshalManifest(doc)
       IN  IF ~u.ok THEN LoadFailed(sManifestNotFound) ELSE LoadSucceeded(u.manifest)

\* LoadManifest(dir), given the scaffold.yaml of dir
LoadManifest(doc) ==
  IF doc.kind = "absent" THEN LoadFailed(sManifestNotFound)
  ELSE IF doc.kind = "unreadable" THEN LoadFailed(sManifestUnread)
  ELSE LET u == UnmarshalManifest(doc)
       IN  IF ~u.ok THEN LoadFailed(sManifestInvalid) ELSE LoadSucceeded(u.manifest)

----------------------------------------------------------------------------
(* LoadManifest on every small scaffold.yaml *)

nAuthor == <<"a", "u", "t", "h", "o", "r">>

nLicense == <<"l", "i", "c", "e", "n", "s", "e">>

nPort == <<"p", "o", "r", "t">>

sAnonymous == <<"A", "n", "o", "n">>

sMIT == <<"M", "I", "T">>

sBSD == <<"B", "S", "D">>

vAuthor == VariableDecl(nAuthor, "", sAnonymous, FALSE, <<>>)

vLicense == VariableDecl(nLicense, "choice", sMIT, FALSE, <<sMIT, sBSD>>)

vPort == VariableDecl(nPort, "", sEmpty, TRUE, <<>>)

FullBodies ==
  [name : {"", "test-template"},
   type : {"base", "module"},
   variables : {<<>>, <<vAuthor>>, <<vPort, vLicense>>},
   actions : {<<MessageAction("done")>>}]

\* a document may lack any of the keys
ManifestBodies == {[k \in K |-> b[k]] : b \in FullBodies, K \in SUBSET ManifestKeys}

ManifestFiles ==
  {Absent, Unreadable, Garbage, Mistyped}
    \cup {ManifestYaml(b, x) : b \in ManifestBodies, x \in BOOLEAN}

InitManifest ==
  /\ ParseIdle
  /\ RegIdle
  /\ FetchIdle
  /\ mdoc \in ManifestFiles
  /\ mres = NotLoaded
  /\ SubstIdle
  /\ RunIdle
  /\ RaceIdle

\* one call of config.LoadManifest
DoLoadManifest ==
  /\ ~mres.called
  /\ mres' = LoadManifest(mdoc)
  /\ UNCHANGED <<mdoc, earlierVars, substVars, runVars, raceVars>>

NextManifest == DoLoadManifest

SpecManifest == InitManifest /\ [][NextManifest]_vars

----------------------------------------------------------------------------
(* package template: the two substitutions. The regular expressions are
   matched the way Go's regexp matches them: leftmost, greedy, one match after
   the other without overlap. *)

Letters ==
  {"a", "b", "c", "d", "e", "f", "g", "h", "i", "j", "k", "l", "m", "n", "o", "p", "q", "r",
   "s", "t", "u", "v", "w", "x", "y", "z", "A", "B", "C", "D", "E", "F", "G", "H", "I", "J",
   "K", "L", "M", "N", "O", "P", "Q", "R", "S", "T", "U", "V", "W", "X", "Y", "Z"}

\* [a-zA-Z_]
IsNameStart(c) == c \in Letters \/ c = "_"

\* [a-zA-Z0-9_]
IsNameChar(c) == c \in Letters \/ c \in Digits \/ c = "_"

\* \s
IsSpace(c) == c \in {" ", "\t", "\n", "\f", "\r"}

sOpen == <<"{", "{">>

sClose == <<"}", "}">>

sDunder == <<"_", "_">>

At(s, i, lit) == i >= 1 /\ i + Len(lit) - 1 <= Len(s) /\ SubSeq(s, i, i + Len(lit) - 1) = lit

RECURSIVE SkipSpace(_, _)
\* the first position from i on that holds no white space
SkipSpace(s, i) == IF i <= Len(s) /\ IsSpace(s[i]) THEN SkipSpace(s, i + 1) ELSE i

RECURSIVE NameRunEnd(_, _)
\* the last position of the run of name characters that starts at i
NameRunEnd(s, i) == IF i + 1 <= Len(s) /\ IsNameChar(s[i + 1]) THEN NameRunEnd(s, i + 1) ELSE i

NoMatch == [found |-> FALSE]

Match(from, to, name) == [found |-> TRUE, from |-> from, to |-> to, name |-> name]

\* \{\{\s*([a-zA-Z_][a-zA-Z0-9_]*)\s*\}\} anchored at i; name is the submatch
ContentMatchAt(s, i) ==
  IF ~At(s, i, sOpen) THEN NoMatch
  ELSE LET k == SkipSpace(s, i + 2)
       IN  IF ~(k <= Len(s) /\ IsNameStart(s[k])) THEN NoMatch
           ELSE LET e == NameRunEnd(s, k)
                    m == SkipSpace(s, e + 1)
                IN  IF At(s, m, sClose) THEN Match(i, m + 1, SubSeq(s, k, e)) ELSE NoMatch

\* __([a-zA-Z_][a-zA-Z0-9_]*)__ anchored at i: the name is as long as it can be
\* with "__" still following; name is the submatch
PathMatchAt(s, i) ==
  IF ~At(s, i, sDunder) THEN NoMatch
  ELSE IF ~(i + 2 <= Len(s) /\ IsNameStart(s[i + 2])) THEN NoMatch
  ELSE LET ends == {j \in (i + 2)..NameRunEnd(s, i + 2) : At(s, j + 1, sDunder)}
       IN  IF ends = {} THEN NoMatch
           ELSE Match(i, Max(ends) + 2, SubSeq(s, i + 2, Max(ends)))

RECURSIVE TrimLeft(_)
TrimLeft(s) == IF s # sEmpty /\ Head(s) = "_" THEN TrimLeft(Tail(s)) ELSE s

RECURSIVE TrimRight(_)
TrimRight(s) ==
  IF s # sEmpty /\ s[Len(s)] = "_" THEN TrimRight(SubSeq(s, 1, Len(s) - 1)) ELSE s

\* strings.Trim(match, "_")
TrimUnderscores(s) == TrimRight(TrimLeft(s))

\* val, ok := p.variables[varName]
Lookup(b, name, match) == IF name \in DOMAIN b THEN b[name] ELSE match

RECURSIVE SubstituteVariablesFrom(_, _, _)
SubstituteVariablesFrom(s, i, b) ==
  IF i > Len(s) THEN sEmpty
  ELSE LET m == ContentMatchAt(s, i)
       IN  IF m.found
           THEN Lookup(b, m.name, SubSeq(s, m.from, m.to)) \o SubstituteVariablesFrom(s, m.to + 1, b)
           ELSE <<s[i]>> \o SubstituteVariablesFrom(s, i + 1, b)

\* Processor.substituteVariables
substituteVariables(s, b) == SubstituteVariablesFrom(s, 1, b)

RECURSIVE SubstituteInPathFrom(_, _, _)
SubstituteInPathFrom(s, i, b) ==
  IF i > Len(s) THEN sEmpty
  ELSE LET m == PathMatchAt(s, i)
       IN  IF m.found
           THEN Lookup(b, TrimUnderscores(SubSeq(s, m.from, m.to)), SubSeq(s, m.from, m.to))
                  \o SubstituteInPathFrom(s, m.to + 1, b)
           ELSE <<s[i]>> \o SubstituteInPathFrom(s, i + 1, b)

\* Processor.substituteInPath
substituteInPath(s, b) == SubstituteInPathFrom(s, 1, b)

----------------------------------------------------------------------------
(* The substitutions on every short string *)

TextAlphabet == {"{", "}", " ", "x", "_"}

RelAlphabet == {"_", "x", "/"}

nX == <<"x">>

nUnderX == <<"_", "x">>

nXUnder == <<"x", "_">>

sValue == <<"v">>

sOther == <<"w">>

nProjectName == <<"p", "r", "o", "j", "e", "c", "t", "_", "n", "a", "m", "e">>

nProjectSlug == <<"p", "r", "o", "j", "e", "c", "t", "_", "s", "l", "u", "g">>

sMyProject == <<"M", "y", " ", "P", "r", "o", "j", "e", "c", "t">>

sMySlug == <<"m", "y", "_", "p", "r", "o", "j", "e", "c", "t">>

sReadmeText == <<"#", " ", "{", "{", " ", "p", "r", "o", "j", "e", "c", "t", "_", "n", "a", "m", "e", " ", "}", "}">>

sReadmeOut == <<"#", " ", "M", "y", " ", "P", "r", "o", "j", "e", "c", "t">>

sSlugDir == <<"_", "_", "p", "r", "o", "j", "e", "c", "t", "_", "s", "l", "u", "g", "_", "_">>

sTwoTokens == <<"_", "_", "x", "_", "_", "_", "_", "x", "_", "_">>

\* the bindings of TestProcessor_Process
TestBinds == (nProjectName :> sMyProject) @@ (nProjectSlug :> sMySlug)

SubstBinds ==
  {EmptyMap, nX :> sValue, nUnderX :> sOther, (nX :> sValue) @@ (nUnderX :> sOther),
   (nX :> sValue) @@ (nXUnder :> sOther), TestBinds}

ContentInputs == UNION {[1..n -> TextAlphabet] : n \in 0..MaxTextLen} \cup {sReadmeText}

RelPathInputs == UNION {[1..n -> RelAlphabet] : n \in 0..MaxRelLen} \cup {sSlugDir, sTwoTokens}

InitSubstitute ==
  /\ ParseIdle
  /\ RegIdle
  /\ FetchIdle
  /\ ManifestIdle
  /\ \/ tmplKind = "content" /\ tmplText \in ContentInputs
     \/ tmplKind = "path" /\ tmplText \in RelPathInputs
  /\ binds \in SubstBinds
  /\ substOut = NotSubstituted
  /\ RunIdle
  /\ RaceIdle

\* processFile hands the content of a text file to substituteVariables
SubstituteContent ==
  /\ tmplKind = "content"
  /\ ~substOut.done
  /\ substOut' = [done |-> TRUE, text |-> substituteVariables(tmplText, binds)]
  /\ UNCHANGED <<tmplKind, tmplText, binds, earlierVars, manifestVars, runVars, raceVars>>

\* Process hands the relative path of an entry to substituteInPath
SubstitutePath ==
  /\ tmplKind = "path"
  /\ ~substOut.done
  /\ substOut' = [done |-> TRUE, text |-> substituteInPath(tmplText, binds)]
  /\ UNCHANGED <<tmplKind, tmplText, binds, earlierVars, manifestVars, runVars, raceVars>>

NextSubstitute == SubstituteContent \/ SubstitutePath

SpecSubstitute == InitSubstitute /\ [][NextSubstitute]_vars

----------------------------------------------------------------------------
(* package template: Process. A tree is a set of entries, each with its path
   below the root as a sequence of names. *)

\* the printable characters of file names in byte order (without the double
\* quote, the backslash and the backquote)
Ascii ==
  <<" ", "!", "#", "$", "%", "&", "'", "(", ")", "*", "+", ",", "-", ".", "/", "0",
   "1", "2", "3", "4", "5", "6", "7", "8", "9", ":", ";", "<", "=", ">", "?", "@",
   "A", "B", "C", "D", "E", "F", "G", "H", "I", "J", "K", "L", "M", "N", "O", "P",
   "Q", "R", "S", "T", "U", "V", "W", "X", "Y", "Z", "[", "]", "^", "_", "a", "b",
   "c", "d", "e", "f", "g", "h", "i", "j", "k", "l", "m", "n", "o", "p", "q", "r",
   "s", "t", "u", "v", "w", "x", "y", "z", "{", "|", "}", "~">>

RankOf == [c \in {Ascii[i] : i \in 1..Len(Ascii)} |-> CHOOSE i \in 1..Len(Ascii) : Ascii[i] = c]

Rank(c) == RankOf[c]

RECURSIVE LessName(_, _)
\* a < b as Go compares strings
LessName(a, b) ==
  IF b = sEmpty THEN FALSE
  ELSE IF a = sEmpty THEN TRUE
  ELSE IF Head(a) # Head(b) THEN Rank(Head(a)) < Rank(Head(b))
  ELSE LessName(Tail(a), Tail(b))

RECURSIVE LessPath(_, _)
\* p is visited before q: a directory before what it holds, the names of one
\* directory in lexical order
LessPath(p, q) ==
  IF q = <<>> THEN FALSE
  ELSE IF p = <<>> THEN TRUE
  ELSE IF Head(p) # Head(q) THEN LessName(Head(p), Head(q))
  ELSE LessPath(Tail(p), Tail(q))

RECURSIVE WalkOrder(_)
\* the order in which filepath.Walk hands the entries of a tree to its callback
WalkOrder(tree) ==
  IF tree = {} THEN <<>>
  ELSE LET first == CHOOSE e \in tree : \A o \in tree \ {e} : LessPath(e.path, o.path)
       IN  <<first>> \o WalkOrder(tree \ {first})

sScaffoldYaml == <<"s", "c", "a", "f", "f", "o", "l", "d", ".", "y", "a", "m", "l">>

\* an entry of a template tree; binary: a NUL byte among its first 512 bytes
SrcDir(path, mode) == [path |-> path, dir |-> TRUE, mode |-> mode, text |-> sEmpty, binary |-> FALSE]

SrcFile(path, mode, text, binary) ==
  [path |-> path, dir |-> FALSE, mode |-> mode, text |-> text, binary |-> binary]

\* where an entry of the destination comes from: the layer and the source
\* entry whose rendering last wrote it
Origin(layer, path) == [layer |-> layer, path |-> path]

DestDir(mode, from) == [dir |-> TRUE, mode |-> mode, text |-> sEmpty, from |-> from]

DestFile(mode, text, from) == [dir |-> FALSE, mode |-> mode, text |-> text, from |-> from]

Put(d, path, e) == [q \in DOMAIN d \cup {path} |-> IF q = path THEN e ELSE d[q]]

\* permission bits that let the invoking user write
FileWritable(mode) == mode # "444"

DirWritable(mode) == mode # "555"

IoOk(d) == [ok |-> TRUE, dest |-> d]

IoErr(d) == [ok |-> FALSE, dest |-> d]

RECURSIVE MkdirAll(_, _, _, _)
\* os.MkdirAll(path, mode): the missing directories on the way get the same mode
MkdirAll(d, path, mode, from) ==
  IF path \in DOMAIN d THEN (IF d[path].dir THEN IoOk(d) ELSE IoErr(d))
  ELSE IF path = <<>> THEN IoOk(Put(d, path, DestDir(mode, from)))
  ELSE LET up == MkdirAll(d, Parent(path), mode, from)
       IN  IF ~up.ok THEN up
           ELSE IF ~DirWritable(up.dest[Parent(path)].mode) THEN IoErr(up.dest)
           ELSE IoOk(Put(up.dest, path, DestDir(mode, from)))

\* os.WriteFile(path, data, mode), and copyFile's os.OpenFile with the same
\* flags: a file that is there is truncated and keeps its permission bits
WriteFile(d, path, text, mode, from) ==
  IF path \in DOMAIN d
  THEN IF d[path].dir \/ ~FileWritable(d[path].mode) THEN IoErr(d)
       ELSE IoOk(Put(d, path, DestFile(d[path].mode, text, from)))
  ELSE IF ~DirWritable(d[Parent(path)].mode) THEN IoErr(d)
  ELSE IoOk(Put(d, path, DestFile(mode, text, from)))

RECURSIVE RelString(_)
\* the relative path of an entry as a string
RelString(path) ==
  IF path = <<>> THEN sDot
  ELSE IF Len(path) = 1 THEN path[1]
  ELSE RelString(Parent(path)) \o sSlash \o path[Len(path)]

\* Processor.processFile
processFile(d, e, destPath, b, from) ==
  LET made == MkdirAll(d, Parent(destPath), "755", from)
  IN  IF ~made.ok THEN made
      ELSE IF e.binary THEN WriteFile(made.dest, destPath, e.text, e.mode, from)
      ELSE WriteFile(made.dest, destPath, substituteVariables(e.text, b), e.mode, from)

\* what the callback of Process does with one entry; prune: filepath.SkipDir
Visit(d, e, b, layer) ==
  LET relPath == RelString(e.path)
      baseName == e.path[Len(e.path)]
      destPath == Join(<<>>, substituteInPath(relPath, b))
      from == Origin(layer, e.path)
  IN  IF relPath = sScaffoldYaml THEN [io |-> IoOk(d), prune |-> FALSE]
      ELSE IF HasPrefix(baseName, sDot) /\ baseName # sDot
      THEN [io |-> IoOk(d), prune |-> e.dir]
      ELSE IF e.dir THEN [io |-> MkdirAll(d, destPath, e.mode, from), prune |-> FALSE]
      ELSE [io |-> processFile(d, e, destPath, b, from), prune |-> FALSE]

IsBelow(path, dir) == Len(path) > Len(dir) /\ SubSeq(path, 1, Len(dir)) = dir

RECURSIVE ProcessFrom(_, _, _, _, _, _, _)
\* the walk from entry i on; pruned: the directories not descended into;
\* failAt: the entry at which the file system fails the walk (0: nowhere)
ProcessFrom(order, i, pruned, d, b, layer, failAt) ==
  IF i > Len(order) THEN IoOk(d)
  ELSE IF \E pd \in pruned : IsBelow(order[i].path, pd)
  THEN ProcessFrom(order, i + 1, pruned, d, b, layer, failAt)
  ELSE IF i = failAt THEN IoErr(d)
  ELSE LET v == Visit(d, order[i], b, layer)
       IN  IF ~v.io.ok THEN v.io
           ELSE ProcessFrom(order, i + 1,
                            IF v.prune THEN pruned \cup {order[i].path} ELSE pruned,
                            v.io.dest, b, layer, failAt)

\* a Process that copies whatever the tree holds
ProcessEverything(tree, d, b, layer, failAt) ==
  LET order == WalkOrder(tree)
      step(acc, e) ==
        IF ~acc.ok THEN acc
        ELSE IF e.dir THEN MkdirAll(acc.dest, e.path, e.mode, Origin(layer, e.path))
        ELSE processFile(acc.dest, e, e.path, b, Origin(layer, e.path))
      run[i \in 0..Len(order)] == IF i = 0 THEN IoOk(d) ELSE step(run[i - 1], order[i])
  IN  run[Len(order)]

\* a Process that takes back what it wrote when the walk fails
ProcessRollback(tree, d, b, layer, failAt) ==
  LET out == ProcessFrom(WalkOrder(tree), 1, {}, d, b, layer, failAt)
  IN  IF out.ok THEN out ELSE IoErr(d)

\* a Process that first renders again, with the bindings it is given, the
\* files that are there already
ProcessRefreshing(tree, d, b, layer, failAt) ==
  LET again == [p \in DOMAIN d |->
                  IF d[p].dir THEN d[p]
                  ELSE [d[p] EXCEPT !.text = substituteVariables(@, b)]]
  IN  ProcessFrom(WalkOrder(tree), 1, {}, again, b, layer, failAt)

\* Processor.Process
Process(tree, d, b, layer, failAt) == ProcessFrom(WalkOrder(tree), 1, {}, d, b, layer, failAt)

----------------------------------------------------------------------------
(* Rendering one layer into the output directory *)

\* a template directory: its scaffold.yaml and the tree below it
Template(doc, tree) == [mdoc |-> doc, tree |-> tree]

\* the output directory just created by os.MkdirAll(outDir, 0755)
FreshDest == Put(EmptyMap, <<>>, DestDir("755", Origin(0, <<>>)))

\* processor.Process() of the layer in hand: the base template once the output
\* directory is made, a module once its variables are collected
RenderLayer(failAt) ==
  /\ \/ layers = 1 /\ layerStage = "made"
     \/ layers > 1 /\ layerStage = "collected"
  /\ failAt <= Cardinality(templates[layerRes.path].tree)
  /\ LET tree == templates[layerRes.path].tree
         out == Process(tree, dest, binds, layers, failAt)
     IN  /\ dest' = out.dest
         /\ layerStage' = IF out.ok THEN "rendered" ELSE "abortRender"
         /\ fault' = IF out # Process(tree, dest, binds, layers, 0) THEN failAt ELSE 0
         /\ actions' = IF out.ok /\ layers > 1 THEN actions \o mres.manifest.Actions
                        ELSE actions
  /\ UNCHANGED <<fs, homeOK, cwdOK, layerUri, layerSrc, layerRes, layers, clones, history,
                 parseVars, regVars, manifestVars, substVars, templates, cli, assignLog,
                 shown, raceVars>>

----------------------------------------------------------------------------
(* Process on the trees made of a few entries *)

sTemplateDir == <<"/", "t">>

nD == <<"d">>
nF == <<"f">>
nK == <<"k">>
nDotE == <<".", "e">>
nDotG == <<".", "g">>
nDotH == <<".", "h">>
nDotZ == <<".", "z">>
nTokenX == <<"_", "_", "x", "_", "_">>
sTokenText == <<"{", "{", " ", "x", " ", "}", "}">>
sManifestText == <<"m">>

\* the entries a tree can be made of
RenderEntries ==
  {SrcFile(<<sScaffoldYaml>>, "644", sManifestText, FALSE),
   SrcDir(<<sScaffoldYaml>>, "755"),
   SrcFile(<<sScaffoldYaml, nK>>, "644", sEmpty, FALSE),
   SrcDir(<<nD>>, "755"),
   SrcFile(<<nD, sScaffoldYaml>>, "644", sManifestText, FALSE),
   SrcFile(<<nD, nDotH>>, "644", sEmpty, FALSE),
   SrcFile(<<nDotE>>, "644", sEmpty, FALSE),
   SrcDir(<<nDotG>>, "755"),
   SrcFile(<<nDotG, nK>>, "644", sEmpty, FALSE),
   SrcDir(<<nDotG, nD>>, "755"),
   SrcFile(<<nDotG, nD, nK>>, "644", sEmpty, FALSE),
   SrcFile(<<nTokenX>>, "644", sTokenText, FALSE),
   SrcFile(<<nF>>, "755", sTokenText, TRUE)}

\* no two entries at one path, and every entry in a directory of the tree
IsTree(t) ==
  /\ \A e \in t : \A o \in t : e.path = o.path => e = o
  /\ \A e \in t : Len(e.path) > 1 => \E o \in t : o.dir /\ o.path = Parent(e.path)

RenderTrees == {t \in SUBSET RenderEntries : IsTree(t)}

RenderBinds == {EmptyMap, nX :> sValue, nX :> sScaffoldYaml, nX :> nDotZ}

InitRender ==
  /\ ParseIdle
  /\ RegIdle
  /\ ManifestIdle
  /\ tmplKind = "none"
  /\ tmplText = sEmpty
  /\ substOut = NotSubstituted
  /\ fs = {<<>>, <<sTemplateDir>>}
  /\ homeOK = TRUE
  /\ cwdOK = TRUE
  /\ layerUri = sFile \o sTemplateDir
  /\ layerStage = "made"
  /\ layerSrc = Parse(sFile \o sTemplateDir).src
  /\ layerRes = FetchOK(sTemplateDir)
  /\ layers = 1
  /\ clones = 0
  /\ history = {}
  /\ cli = NoCommand
  /\ assignLog = <<>>
  /\ fault = 0
  /\ actions = <<>>
  /\ shown = <<>>
  /\ RaceIdle
  /\ dest = FreshDest
  /\ binds \in RenderBinds
  /\ templates \in {sTemplateDir :> Template(Absent, t) : t \in RenderTrees}

MaxEntries == 8

NextRender == \E failAt \in 0..MaxEntries : RenderLayer(failAt)

SpecRender == InitRender /\ [][NextRender]_vars

----------------------------------------------------------------------------
(* cmd/init: the variables map of a run. Names and values are strings; every
   assignment to the map is also written to a log, the map itself keeps only
   the last value of a name. *)

UpperCase ==
  <<"A", "B", "C", "D", "E", "F", "G", "H", "I", "J", "K", "L", "M", "N", "O", "P", "Q", "R",
    "S", "T", "U", "V", "W", "X", "Y", "Z">>

LowerCase ==
  <<"a", "b", "c", "d", "e", "f", "g", "h", "i", "j", "k", "l", "m", "n", "o", "p", "q", "r",
    "s", "t", "u", "v", "w", "x", "y", "z">>

\* strings.ToLower on ASCII
ToLower(s) ==
  [i \in 1..Len(s) |->
     IF \E k \in 1..26 : UpperCase[k] = s[i]
     THEN LowerCase[CHOOSE k \in 1..26 : UpperCase[k] = s[i]]
     ELSE s[i]]

sEquals == <<"=">>

\* strings.SplitN(v, "=", 2)
SplitN2(v) ==
  LET i == Index(v, sEquals)
  IN  IF i = 0 THEN <<v>> ELSE <<Before(v, i), After(v, i, 1)>>

sTrue == <<"t", "r", "u", "e">>

sFalse == <<"f", "a", "l", "s", "e">>

\* the map and the log of the assignments made to it
Vars(map, log) == [vars |-> map, log |-> log]

\* vars[name] = val; by says which statement assigns: "seed", "override",
\* "default" or "prompt", and layer in which layer of the run
Assign(st, name, val, by, layer) ==
  Vars(Put(st.vars, name, val),
       Append(st.log, [name |-> name, val |-> val, by |-> by, layer |-> layer,
                       bound |-> name \in DOMAIN st.vars]))

\* the loop over the --var flags, from the i-th on
RECURSIVE ApplyFlags(_, _, _)
ApplyFlags(st, flags, i) ==
  IF i > Len(flags) THEN st
  ELSE LET parts == SplitN2(flags[i])
       IN  ApplyFlags(IF Len(parts) = 2 THEN Assign(st, parts[1], parts[2], "override", 1)
                      ELSE st,
                      flags, i + 1)

\* a loop of defaults that also replaces the value of a bound name
RECURSIVE ApplyDefaultsOverBound(_, _, _)
ApplyDefaultsOverBound(st, decls, i) ==
  IF i > Len(decls) THEN st
  ELSE LET v == decls[i]
       IN  ApplyDefaultsOverBound(IF v.Default # sEmpty
                                  THEN Assign(st, v.Name, v.Default, "default", 1)
                                  ELSE st,
                                  decls, i + 1)

\* the loop over the declared variables that applies the defaults
RECURSIVE ApplyDefaults(_, _, _)
ApplyDefaults(st, decls, i) ==
  IF i > Len(decls) THEN st
  ELSE LET v == decls[i]
       IN  ApplyDefaults(IF v.Name \notin DOMAIN st.vars /\ v.Default # sEmpty
                         THEN Assign(st, v.Name, v.Default, "default", 1)
                         ELSE st,
                         decls, i + 1)

\* collectVariables(manifest, projectName), with the --var flags of the
\* command line
collectVariables(manifest, projectName, flags, log) ==
  LET slug == ReplaceAll(ToLower(projectName), "-", "_")
      seeded == Assign(Assign(Vars(EmptyMap, log), nProjectName, projectName, "seed", 1),
                       nProjectSlug, slug, "seed", 1)
  IN  ApplyDefaults(ApplyFlags(seeded, flags, 1), manifest.Variables, 1)

\* what the prompt for a variable of the base template can give back: a
\* Select gives one of the choices, a Confirm gives true or false, an Input
\* with the Required validator gives a non-empty string
ValidAnswer(v, a) ==
  IF v.Type \in {"select", "choice"} /\ Len(v.Choices) > 0
  THEN \E k \in 1..Len(v.Choices) : v.Choices[k] = a
  ELSE IF v.Type \in {"confirm", "boolean"} THEN a \in {sTrue, sFalse}
  ELSE IF v.Type \notin {"select", "choice"} /\ v.Required THEN a # sEmpty
  ELSE TRUE

\* the outcome of a loop of prompts: err says that a prompt gave an error
Prompted(st, err) == [vars |-> st.vars, log |-> st.log, err |-> err]

\* the loop of prompts over the declared variables, from the i-th on. ans
\* gives the answer to the prompt for each name, stopAt the variable whose
\* prompt is interrupted (0: none)
RECURSIVE PromptFrom(_, _, _, _, _, _)
PromptFrom(st, decls, ans, stopAt, layer, i) ==
  IF i > Len(decls) THEN Prompted(st, FALSE)
  ELSE LET v == decls[i]
       IN  IF v.Name \in DOMAIN st.vars
           THEN PromptFrom(st, decls, ans, stopAt, layer, i + 1)
           ELSE IF i = stopAt THEN Prompted(st, TRUE)
           ELSE PromptFrom(Assign(st, v.Name, ans[v.Name], "prompt", layer),
                           decls, ans, stopAt, layer, i + 1)

\* the variables the loop of prompts asks for
RECURSIVE AskedFrom(_, _, _, _)
AskedFrom(bound, decls, stopAt, i) ==
  IF i > Len(decls) THEN {}
  ELSE IF decls[i].Name \in bound THEN AskedFrom(bound, decls, stopAt, i + 1)
  ELSE IF i = stopAt THEN {i}
  ELSE {i} \cup AskedFrom(bound \cup {decls[i].Name}, decls, stopAt, i + 1)

----------------------------------------------------------------------------
(* cmd/init: runInit, one action per stage. layerStage is the position of
   runInit; a position whose name starts with "abort" is a return with an
   error. *)

\* the arguments and flags of `scaffold init`
Command(project, base, modules, noPrompt, flags) ==
  [given |-> TRUE, project |-> project, base |-> base, modules |-> modules,
   noPrompt |-> noPrompt, flags |-> flags]

\* a check that lets an empty directory pass
OutDirNotEmpty == Cardinality(DOMAIN dest) > 1

\* os.Stat(outDir) finds something
OutDirExists == dest # EmptyMap

\* the template directory at a path Fetch returned
TemplateAt(path) ==
  IF path \in DOMAIN templates THEN templates[path] ELSE Template(Absent, {})

AbortStages ==
  {"abortPrompt", "abortName", "abortExists", "abortBase", "abortParse", "abortFetch",
   "abortLoad", "abortMkdir", "abortRender"}

\* runInit up to the first Resolve: the project name and the base template
\* are asked for when they are not given and prompting is enabled. name and
\* pick are the answers, stopAt the prompt that is interrupted (0: none,
\* 1: the project name, 2: the template).
BeginRun(name, pick, stopAt) ==
  /\ layerStage = "idle"
  /\ layers = 0
  /\ cli.given
  /\ name # sEmpty
  /\ pick # sEmpty
  /\ LET askName == cli.project = sEmpty /\ ~cli.noPrompt
         projectName == IF askName /\ stopAt # 1 THEN name ELSE cli.project
         askBase == cli.base = sEmpty /\ ~cli.noPrompt
         baseTemplate == IF askBase /\ stopAt # 2 THEN pick ELSE cli.base
     IN  /\ stopAt = 1 => askName
         /\ stopAt = 2 => askBase /\ projectName # sEmpty /\ ~OutDirExists
         /\ layerStage' = IF askName /\ stopAt = 1 THEN "abortPrompt"
                          ELSE IF projectName = sEmpty THEN "abortName"
                          ELSE IF OutDirExists THEN "abortExists"
                          ELSE IF askBase /\ stopAt = 2 THEN "abortPrompt"
                          ELSE IF baseTemplate = sEmpty THEN "abortBase"
                          ELSE "begun"
         /\ cli' = [cli EXCEPT !.project = projectName,
                               !.base = IF projectName = sEmpty \/ OutDirExists
                                        THEN cli.base ELSE baseTemplate]
  /\ UNCHANGED <<fs, homeOK, cwdOK, layerUri, layerSrc, layerRes, layers, clones, history,
                 parseVars, regVars, manifestVars, substVars, templates, dest, assignLog,
                 fault, actions, shown, raceVars>>

\* reg.Resolve of the base template, or of the next module once the layer
\* before it is rendered
ResolveLayer(remote, w) ==
  /\ \/ layerStage = "begun" /\ layers = 0
     \/ layerStage = "rendered" /\ layers >= 1 /\ layers <= Len(cli.modules)
  /\ LET arg == IF layers = 0 THEN cli.base ELSE cli.modules[layers]
         L == ensureLoaded(remote, w)
         r == ResolveResult(L, arg)
     IN  /\ index' = L.index
         /\ cache' = L.cache
         /\ trail' = L.trail
         /\ lastSave' = L.save
         /\ result' = r
         /\ layerUri' = r.val
  /\ calls' = calls + 1
  /\ layers' = layers + 1
  /\ layerStage' = "resolved"
  /\ layerSrc' = NoSource
  /\ layerRes' = NotFetched
  /\ UNCHANGED <<overrideEnv, overrideFile, embedded, fs, homeOK, cwdOK, clones, history,
                 parseVars, laterVars>>

\* config.LoadManifest of the directory Fetch returned
LoadLayer ==
  /\ layerStage = "fetched"
  /\ cli.given
  /\ LET doc == TemplateAt(layerRes.path).mdoc
         r == LoadManifest(doc)
     IN  /\ mdoc' = doc
         /\ mres' = r
         /\ layerStage' = IF r.err = "" THEN "loaded" ELSE "abortLoad"
         /\ actions' = IF r.err = "" /\ layers = 1 THEN r.manifest.Actions ELSE actions
  /\ UNCHANGED <<fs, homeOK, cwdOK, layerUri, layerSrc, layerRes, layers, clones, history,
                 parseVars, regVars, substVars, templates, dest, cli, assignLog, fault, shown,
                 raceVars>>

\* the variables of the layer: collectVariables for the base template, then
\* the loop of prompts when prompting is enabled
CollectLayer(ans, stopAt) ==
  /\ layerStage = "loaded"
  /\ LET decls == mres.manifest.Variables
         start == IF layers = 1
                  THEN collectVariables(mres.manifest, cli.project, cli.flags, assignLog)
                  ELSE Vars(binds, assignLog)
         asked == IF cli.noPrompt THEN {}
                  ELSE AskedFrom(DOMAIN start.vars, decls, stopAt, 1)
         out == IF cli.noPrompt THEN Prompted(start, FALSE)
                ELSE PromptFrom(start, decls, ans, stopAt, layers, 1)
     IN  /\ DOMAIN ans = {decls[i].Name : i \in asked \ {stopAt}}
         /\ stopAt # 0 => stopAt \in asked
         /\ layers = 1 => \A i \in asked \ {stopAt} : ValidAnswer(decls[i], ans[decls[i].Name])
         /\ binds' = out.vars
         /\ assignLog' = out.log
         /\ layerStage' = IF out.err THEN "abortPrompt" ELSE "collected"
  /\ UNCHANGED <<fs, homeOK, cwdOK, layerUri, layerSrc, layerRes, layers, clones, history,
                 parseVars, regVars, manifestVars, tmplKind, tmplText, substOut, templates,
                 dest, cli, fault, actions, shown, raceVars>>

\* an os.MkdirAll(outDir, 0755) that comes first, before the base template is
\* resolved
MkOutDirAtStart(ok) ==
  /\ layerStage = "begun"
  /\ layers = 0
  /\ dest = EmptyMap
  /\ ok
  /\ dest' = FreshDest
  /\ UNCHANGED <<fs, homeOK, cwdOK, layerUri, layerStage, layerSrc, layerRes, layers, clones,
                 history, parseVars, regVars, manifestVars, substVars, templates, cli,
                 assignLog, fault, actions, shown, raceVars>>

\* os.MkdirAll(outDir, 0755), before the base template is rendered
MkOutDir(ok) ==
  /\ layerStage = "collected"
  /\ layers = 1
  /\ dest' = IF ok THEN FreshDest ELSE dest
  /\ layerStage' = IF ok THEN "made" ELSE "abortMkdir"
  /\ UNCHANGED <<fs, homeOK, cwdOK, layerUri, layerSrc, layerRes, layers, clones, history,
                 parseVars, regVars, manifestVars, substVars, templates, cli, assignLog,
                 fault, actions, shown, raceVars>>

\* the end of runInit: the last layer is rendered, the messages are printed
\* and nil is returned
FinishRun ==
  /\ layerStage = "rendered"
  /\ cli.given
  /\ layers = 1 + Len(cli.modules)
  /\ layerStage' = "done"
  /\ shown' = SelectSeq(actions, LAMBDA a : a.Type = "message")
  /\ UNCHANGED <<fs, homeOK, cwdOK, layerUri, layerSrc, layerRes, layers, clones, history,
                 parseVars, regVars, manifestVars, substVars, templates, dest, cli, assignLog,
                 fault, actions, raceVars>>

sLockFile == <<"s", "c", "a", "f", "f", "o", "l", "d", ".", "l", "o", "c", "k">>

\* config.SaveLockfile(dir, lock): os.WriteFile of scaffold.lock with mode
\* 0644. No stage of runInit calls it.
SaveLockfile(d, lock) == WriteFile(d, <<sLockFile>>, lock, "644", Origin(0, <<sLockFile>>))

----------------------------------------------------------------------------
(* Runs of init over a few template directories *)

sBaseDir == <<"/", "t">>
sModuleDir == <<"/", "u">>
sSecondDir == <<"/", "r">>
sBrokenDir == <<"/", "g">>
sBareDir == <<"/", "m">>
sMissingDir == <<"/", "n">>

nLevel == <<"l", "e", "v", "e", "l">>
nStrict == <<"s", "t", "r", "i", "c", "t">>
nG == <<"g">>

sThree == <<"3">>
sEight == <<"8">>

sPortText == <<"{", "{", " ", "p", "o", "r", "t", " ", "}", "}">>
sAuthorText == <<"{", "{", "a", "u", "t", "h", "o", "r", "}", "}">>
sLevelText == <<"{", "{", "l", "e", "v", "e", "l", "}", "}">>

vStrict == VariableDecl(nStrict, "boolean", sEmpty, FALSE, <<>>)

vLevel == VariableDecl(nLevel, "", sThree, FALSE, <<>>)

\* a module that declares the required variable of the base template again,
\* with a default
vPortDefault == VariableDecl(nPort, "", sThree, TRUE, <<>>)

BaseManifest ==
  ManifestYaml([name |-> "app", type |-> "base", variables |-> <<vAuthor, vPort, vStrict>>,
                actions |-> <<MessageAction("run make")>>], FALSE)

ModuleManifest ==
  ManifestYaml([name |-> "api", type |-> "module", variables |-> <<vLevel, vPortDefault>>,
                actions |-> <<CommandAction("make"), MessageAction("run api")>>], FALSE)

SecondManifest == ManifestYaml([name |-> "ci", type |-> "module"], TRUE)

nV == <<"v">>

\* the base template writes f, the read-only g, and v, which holds the token
\* of a variable that only the first module declares; the first module
\* writes f again, the second one d and then g
RunTemplates ==
  (sBaseDir :> Template(BaseManifest,
                        {SrcFile(<<sScaffoldYaml>>, "644", sManifestText, FALSE),
                         SrcFile(<<nF>>, "644", sPortText, FALSE),
                         SrcFile(<<nG>>, "444", sAuthorText, FALSE),
                         SrcFile(<<nV>>, "644", sLevelText, FALSE)}))
    @@ (sModuleDir :> Template(ModuleManifest,
                               {SrcFile(<<sScaffoldYaml>>, "644", sManifestText, FALSE),
                                SrcFile(<<nF>>, "755", sLevelText, FALSE),
                                SrcFile(<<nK>>, "644", sPortText, FALSE)}))
    @@ (sSecondDir :> Template(SecondManifest,
                               {SrcFile(<<sScaffoldYaml>>, "644", sManifestText, FALSE),
                                SrcFile(<<nD>>, "644", sLevelText, FALSE),
                                SrcFile(<<nG>>, "644", sLevelText, FALSE)}))
    @@ (sBrokenDir :> Template(Garbage, {SrcFile(<<sScaffoldYaml>>, "644", sManifestText, FALSE)}))
    @@ (sBareDir :> Template(Absent, {SrcFile(<<nF>>, "644", sEmpty, FALSE)}))

\* the directories of the templates
RunDirs == {<<>>} \cup {<<SubSeq(p, 2, Len(p))>> : p \in DOMAIN RunTemplates}

nApp == <<"a", "p", "p">>
nApi == <<"a", "p", "i">>

\* the index of the registry: app is the base template, api the first module
RunIndex ==
  [Version |-> "1",
   Official |-> (nApp :> [Source |-> sFile \o sBaseDir, Description |-> "official"]),
   Community |-> (nApi :> [Source |-> sFile \o sModuleDir, Description |-> "community"]),
   Aliases |-> (<<"a">> :> nApp)]

sMyApp == <<"M", "y", "-", "A", "p", "p">>

sNoScheme == <<"z", "z">>

RunBases ==
  {sFile \o sBaseDir, <<"a">>, sFile \o sBrokenDir, sFile \o sMissingDir, sHttps \o <<"a">>,
   sNoScheme}

RunModules ==
  {<<>>, <<nApi>>, <<sFile \o sSecondDir>>, <<sFile \o sModuleDir, sFile \o sSecondDir>>,
   <<sFile \o sSecondDir, nApi>>, <<sFile \o sBareDir>>, <<nApi, sFile \o sMissingDir>>,
   <<sNoScheme>>}

RunFlags ==
  {<<>>,
   <<nPort \o sEquals \o sEight>>,
   <<nProjectName \o sEquals \o <<"X">>, nAuthor \o sEquals \o <<"a">>,
     nAuthor \o sEquals \o <<"b", "=">>>>,
   <<nLevel \o sEquals \o sEight, nPort>>}

\* the commands that get past the first checks, and those that are about them
RunCommands ==
  {Command(sMyApp, b, ms, np, fl) :
     b \in RunBases, ms \in RunModules, np \in BOOLEAN, fl \in RunFlags}
    \cup {Command(p, b, <<>>, np, <<>>) :
            p \in {sEmpty, sMyApp}, b \in {sEmpty, sFile \o sBaseDir}, np \in BOOLEAN}

\* an output directory that is there before the run
OldDest == Put(FreshDest, <<nF>>, DestFile("644", sEmpty, Origin(0, <<nF>>)))

RunAnswers == {sEmpty, sEight, sTrue}

AnswerMaps == UNION {[D -> RunAnswers] : D \in SUBSET {nPort, nStrict, nLevel}}

InitRun ==
  /\ ParseIdle
  /\ overrideEnv = TRUE
  /\ overrideFile = Yaml(RunIndex, FALSE)
  /\ cache = NoCache
  /\ embedded = Marshal(IdxEmpty)
  /\ index = NilIndex
  /\ trail = <<>>
  /\ lastSave = NoSave
  /\ result = NoResult
  /\ calls = 0
  /\ fs = RunDirs
  /\ homeOK = TRUE
  /\ cwdOK = TRUE
  /\ layerUri = sEmpty
  /\ layerStage = "idle"
  /\ layerSrc = NoSource
  /\ layerRes = NotFetched
  /\ layers = 0
  /\ clones = 0
  /\ history = {}
  /\ ManifestIdle
  /\ SubstIdle
  /\ templates = RunTemplates
  /\ cli \in RunCommands
  /\ dest \in {EmptyMap}
               \cup (IF cli.modules = <<>> /\ cli.flags = <<>> THEN {OldDest, FreshDest} ELSE {})
  /\ assignLog = <<>>
  /\ fault = 0
  /\ actions = <<>>
  /\ shown = <<>>
  /\ RaceIdle

NextRun ==
  \/ \E name \in {sMyApp}, pick \in {nApp, sFile \o sBrokenDir}, stopAt \in 0..2 :
       BeginRun(name, pick, stopAt)
  \/ ResolveLayer(Down, "failed")
  \/ ParseLayer
  \/ \E mk \in FetchOutcomes, cl \in FetchOutcomes : FetchLayer(mk, cl)
  \/ LoadLayer
  \/ \E ans \in AnswerMaps, stopAt \in 0..3 : CollectLayer(ans, stopAt)
  \/ \E ok \in BOOLEAN : MkOutDir(ok)
  \/ \E failAt \in 0..MaxEntries : RenderLayer(failAt)
  \/ FinishRun

SpecRun == InitRun /\ [][NextRun]_vars

----------------------------------------------------------------------------
(* Claims about Parse *)

sHttpsScheme == <<"h", "t", "t", "p", "s", ":", "/", "/">>

\* the shorthand github:org/repo//sub#ref, every part non-empty: what follows
\* "github:" has a "#", and before its last "#" a "//" that does not start it
GithubRest(u) == TrimPrefix(u, sGithub)

GithubBeforeRef(u) == Before(GithubRest(u), LastIndex(GithubRest(u), sHash))

IsGithubShorthand(u) ==
  /\ HasPrefix(u, sGithub)
  /\ LastIndex(GithubRest(u), sHash) # 0
  /\ After(GithubRest(u), LastIndex(GithubRest(u), sHash), 1) # sEmpty
  /\ Index(GithubBeforeRef(u), sSlashSlash) > 1
  /\ After(GithubBeforeRef(u), Index(GithubBeforeRef(u), sSlashSlash), 2) # sEmpty
  /\ GithubBeforeRef(u)[1] # "/"

\* C1: for every shorthand github:org/repo//sub#ref, Parse returns a git source
\* with location https://github.com/org/repo, subdir sub, ref ref and provider
\* github: the ref follows the last "#", the subdir follows the first "//" after
\* the URL scheme.
C1_ShorthandFields ==
  (parsed.called /\ IsGithubShorthand(uri)) =>
    LET body == GithubBeforeRef(uri)
        cut == Index(body, sSlashSlash)
    IN  /\ parsed.err = ""
        /\ parsed.src.Type = TypeGit
        /\ parsed.src.URL = sHttpsScheme \o sGithubHost \o sSlash \o Before(body, cut)
        /\ parsed.src.Subdir = After(body, cut, 2)
        /\ parsed.src.Ref = After(GithubRest(uri), LastIndex(GithubRest(uri), sHash), 1)
        /\ parsed.src.Provider = "github"

\* what the code returns for such a shorthand: the "//" of "https://" is taken
\* as the subdir separator
C1_CodeOutcome ==
  (parsed.called /\ IsGithubShorthand(uri)) =>
    /\ parsed.src.URL = <<"h", "t", "t", "p", "s", ":">>
    /\ parsed.src.Subdir = sGithubHost \o sSlash \o GithubBeforeRef(uri)
    /\ parsed.src.Provider = ""

C1_Reached == parsed.called /\ IsGithubShorthand(uri)

KnownPrefixes == {sGithub, sGitlab, sBitbucket, sGit, sFile, sHttp, sHttps}

HasKnownPrefix(u) == \E p \in KnownPrefixes : HasPrefix(u, p)

KindOfPrefix(u) ==
  IF \E p \in {sGithub, sGitlab, sBitbucket, sGit} : HasPrefix(u, p) THEN TypeGit
  ELSE IF HasPrefix(u, sFile) THEN TypeFile
  ELSE TypeURL

IsPlainURL(u) == HasPrefix(u, sHttp) \/ HasPrefix(u, sHttps)

\* C2 as stated: Parse fails exactly when its input is empty or starts with
\* none of the seven prefixes, and the kind is fixed by the prefix alone.
C2_FailsExactlyOnUnknown ==
  parsed.called =>
    /\ (parsed.err # "") <=> (uri = sEmpty \/ ~HasKnownPrefix(uri))
    /\ parsed.err = "" => parsed.src.Type = KindOfPrefix(uri)

\* C2 as amended: Parse fails exactly when its input is empty, starts with none
\* of the seven prefixes, or is an http(s):// URI that URL validation rejects;
\* every other input succeeds with the kind fixed by the prefix alone.
C2_FailsExactly ==
  parsed.called =>
    /\ (parsed.err # "") <=>
         (uri = sEmpty \/ ~HasKnownPrefix(uri) \/ (IsPlainURL(uri) /\ ~UrlParseOK(uri)))
    /\ parsed.err = "" => parsed.src.Type = KindOfPrefix(uri)

C2_Reached == parsed.called /\ IsPlainURL(uri) /\ parsed.err = "invalid URL"

----------------------------------------------------------------------------
(* Claims about the registry's tiers *)

\* a step in which Resolve or List runs
CallStep == calls' = calls + 1

\* a step in which ensureLoaded has no index yet and goes through the tiers
LoadStep == CallStep /\ ~index.set

IndexKeys(idx) == (DOMAIN idx.Aliases) \cup (DOMAIN idx.Official) \cup (DOMAIN idx.Community)

HasTier(t, name) == \E i \in 1..Len(t) : t[i].tier = name

LastTier(t) == t[Len(t)]

\* C3: Resolve is total: whatever the tiers do it returns a string and a nil
\* error, and the string is the input whenever the input is no alias key, no
\* official key and no community key of the index in use (no index: no keys).
C3_ResolveTotal ==
  [][(CallStep /\ result'.op = "Resolve") =>
       /\ result'.err = ""
       /\ result'.val \in STRING
       /\ (~index'.set \/ result'.arg \notin IndexKeys(index'.idx)) => result'.val = result'.arg
    ]_vars

\* every tier failed, the embedded index included, and Resolve returned its input
C3_Reached ==
  /\ result.op = "Resolve"
  /\ ~index.set
  /\ Len(trail) >= 3
  /\ LastTier(trail) = Step("embedded", FALSE)
  /\ result.err = ""
  /\ result.val = result.arg

OverrideSucceeds == overrideEnv /\ overrideFile.kind = "yaml"

CacheFresh == cache.present /\ cache.age <= CacheExpiry

CacheSucceeds == CacheFresh /\ cache.doc.kind = "yaml"

\* the tiers appear in the fixed order and every tier but the last failed
TrailInOrder(t) ==
  /\ \A i \in 1..Len(t), j \in 1..Len(t) :
       i < j => <<t[i].tier, t[j].tier>> \in
                  {<<"override", "cache">>, <<"override", "remote">>, <<"override", "embedded">>,
                   <<"cache", "remote">>, <<"cache", "embedded">>, <<"remote", "embedded">>}
  /\ \A i \in 1..(Len(t) - 1) : ~t[i].ok

\* C5: the index in use is the one of the first tier that succeeds, in the order
\* override file, cache (at most 24h old and parsable), remote, embedded; a later
\* tier is consulted only when every earlier one failed: a fresh cache prevents
\* the remote fetch, and an expired cache is never used.
C5_FirstTierWins ==
  [][LoadStep =>
       /\ trail' # <<>>
       /\ TrailInOrder(trail')
       /\ index'.set = LastTier(trail').ok
       /\ HasTier(trail', "override") = overrideEnv
       /\ OverrideSucceeds =>
            /\ trail' = <<Step("override", TRUE)>>
            /\ index' = Loaded(overrideFile.body)
       /\ (~OverrideSucceeds /\ CacheSucceeds) =>
            /\ LastTier(trail') = Step("cache", TRUE)
            /\ ~HasTier(trail', "remote")
            /\ index' = Loaded(cache.doc.body)
       /\ (~OverrideSucceeds /\ ~CacheSucceeds) =>
            /\ HasTier(trail', "cache")
            /\ HasTier(trail', "remote")
            /\ LastTier(trail').tier \in {"remote", "embedded"}
            /\ LastTier(trail') = Step("remote", TRUE) => index'.idx \in RemoteIndices
            /\ LastTier(trail').tier = "embedded" => index' = (IF embedded.kind = "yaml"
                                                                THEN Loaded(embedded.body)
                                                                ELSE NilIndex)
    ]_vars

\* an expired, parsable cache was passed over, the remote failed, and the
\* embedded index is in use
C5_Reached ==
  /\ cache.present
  /\ cache.age > CacheExpiry
  /\ cache.doc.kind = "yaml"
  /\ trail = <<Step("cache", FALSE), Step("remote", FALSE), Step("embedded", TRUE)>>
  /\ index = Loaded(EmbeddedIndex)

LoadedFromRemote == LoadStep /\ LastTier(trail') = Step("remote", TRUE)

----------------------------------------------------------------------------
(* Claims about lookups; under SpecLookup the index in use is the one of the
   override file *)

IndexInUse == overrideFile.body

\* C4: alias resolution is one hop: an alias key is replaced once by its target,
\* the target is looked up in official, then community, and the entry's source
\* is returned; a target that is in neither is returned as it is, also when it
\* is itself an alias key.
C4_AliasOneHop ==
  (result.op = "Resolve" /\ result.arg \in DOMAIN IndexInUse.Aliases) =>
    LET target == IndexInUse.Aliases[result.arg]
    IN  /\ target \in DOMAIN IndexInUse.Official =>
             result.val = IndexInUse.Official[target].Source
        /\ (target \notin DOMAIN IndexInUse.Official
              /\ target \in DOMAIN IndexInUse.Community) =>
             result.val = IndexInUse.Community[target].Source
        /\ (target \notin DOMAIN IndexInUse.Official
              /\ target \notin DOMAIN IndexInUse.Community) =>
             result.val = target

\* aliases {a: b, b: c}, official {c}: Resolve("a") has returned "b"
C4_Reached ==
  /\ result.op = "Resolve"
  /\ result.arg = "a"
  /\ IndexInUse.Aliases = (("a" :> "b") @@ ("b" :> "c"))
  /\ DOMAIN IndexInUse.Official = {"c"}
  /\ DOMAIN IndexInUse.Community = {}
  /\ result.val = "b"

\* C7: List returns one map holding every official and every community name;
\* for a name that is a key of both, the entry returned is the official one.
C7_ListOfficialWins ==
  (result.op = "List" /\ result.err = "") =>
    /\ DOMAIN result.list = (DOMAIN IndexInUse.Official) \cup (DOMAIN IndexInUse.Community)
    /\ \A k \in DOMAIN result.list :
         result.list[k] = IF k \in DOMAIN IndexInUse.Official THEN IndexInUse.Official[k]
                          ELSE IndexInUse.Community[k]

\* what the code returns: on a collision the community entry
C7_ListCommunityWins ==
  (result.op = "List" /\ result.err = "") =>
    /\ DOMAIN result.list = (DOMAIN IndexInUse.Official) \cup (DOMAIN IndexInUse.Community)
    /\ \A k \in DOMAIN result.list :
         result.list[k] = IF k \in DOMAIN IndexInUse.Community THEN IndexInUse.Community[k]
                          ELSE IndexInUse.Official[k]

\* List has run on an index with a name in both maps
C7_Reached ==
  /\ result.op = "List"
  /\ result.err = ""
  /\ (DOMAIN IndexInUse.Official) \cap (DOMAIN IndexInUse.Community) # {}

----------------------------------------------------------------------------
(* Claims about Fetch *)

\* a step in which Parse runs on the layer in hand
ParseStep == layerStage = "resolved" /\ layerStage' \in {"parsed", "abortParse"}

\* a step in which Fetch runs on the layer in hand
FetchStep == layerStage = "parsed" /\ layerStage' \in {"fetched", "abortFetch"}

sTilde == <<"~">>

\* the path of a file source with a leading "~" replaced by the home directory
\* and a relative path put below the working directory
TildeExpanded(path) ==
  LET expanded == IF HasPrefix(path, sTilde) THEN PathString(Home) \o Tail(path) ELSE path
  IN  IF IsAbs(expanded) THEN expanded ELSE PathString(Cwd) \o sSlash \o expanded

\* C8 as stated: Fetch of a file source fails when the path, after a leading
\* "~" is expanded to the home directory and a relative path is resolved against
\* the working directory, does not exist; otherwise it returns an absolute path
\* that exists; and it creates and removes nothing.
C8_FileFetchLeadingTilde ==
  [][(FetchStep /\ layerSrc.Type = TypeFile) =>
       /\ (layerRes'.err # "") <=> ~Stat(fs, TildeExpanded(layerSrc.URL))
       /\ layerRes'.err = "" => (IsAbs(layerRes'.path) /\ Stat(fs', layerRes'.path))
       /\ fs' = fs
       /\ clones' = clones]_vars

\* the path of a file source as far as it can be determined: only a leading
\* "~/" stands for the home directory, and joining is lexical
NeedsHome(path) == HasPrefix(path, sTildeSlash)

NeedsCwd(path) == ~NeedsHome(path) /\ ~IsAbs(path)

Resolved(path) ==
  IF NeedsHome(path) THEN PathString(Join(Home, SubSeq(path, 3, Len(path))))
  ELSE IF IsAbs(path) THEN path
  ELSE PathString(Join(Cwd, path))

\* C8: Fetch of a file source expands a leading "~/" only. It fails when the
\* home directory is needed and unknown, when the working directory is needed
\* and unknown, and when the resolved path does not exist; otherwise it returns
\* the resolved path, which is absolute and exists. It creates and removes
\* nothing and runs no clone.
C8_FileFetch ==
  [][(FetchStep /\ layerSrc.Type = TypeFile) =>
       LET path == layerSrc.URL
           undetermined == (NeedsHome(path) /\ ~homeOK) \/ (NeedsCwd(path) /\ ~cwdOK)
       IN  /\ (layerRes'.err # "") <=> (undetermined \/ ~Stat(fs, Resolved(path)))
           /\ layerRes'.err = "" =>
                /\ layerRes'.path = Resolved(path)
                /\ IsAbs(layerRes'.path)
                /\ Stat(fs', layerRes'.path)
           /\ fs' = fs
           /\ clones' = clones]_vars

\* a file source written with "~/" was fetched from the home directory
C8_Reached ==
  /\ layerStage = "fetched"
  /\ layerSrc.Type = TypeFile
  /\ layerSrc.URL = <<"~", "/", "a">>
  /\ layerRes.path = <<"/", "h", "/", "a">>

\* what the code does with a bare "~": it looks for a directory of that name
\* below the working directory
C8_BareTildeIsRelative ==
  (layerStage \in {"fetched", "abortFetch"} /\ layerSrc.Type = TypeFile
     /\ layerSrc.URL = sTilde /\ cwdOK) =>
    (layerRes.err = "" <=> (Cwd \o <<sTilde>>) \in fs)

\* C9: once a git source has been fetched with success, every later Fetch of a
\* source with the same URL, ref and subdir, made while the cache path exists,
\* returns the same path and runs no clone. A cache path that exists is always a
\* hit: the fetch succeeds and leaves the directories as they are. A successful
\* fetch leaves the cache path in place.
C9_CacheHit ==
  [][(FetchStep /\ layerSrc.Type = TypeGit) =>
       /\ \A h \in history :
            (h.src = SourceKey(layerSrc) /\ cachePathFor(layerSrc) \in fs) =>
              /\ layerRes'.err = ""
              /\ layerRes'.path = h.path
              /\ clones' = clones
       /\ cachePathFor(layerSrc) \in fs =>
            /\ layerRes'.err = ""
            /\ clones' = clones
            /\ fs' = fs
       /\ layerRes'.err = "" => cachePathFor(layerSrc) \in fs']_vars

\* the same git source was fetched twice with success, by one clone
C9_Reached ==
  /\ layerStage = "fetched"
  /\ layerSrc.Type = TypeGit
  /\ layers = 2
  /\ clones = 1
  /\ {h.ran : h \in {g \in history : g.src = SourceKey(layerSrc)}} = {TRUE, FALSE}

sNotImplemented == "URL fetching not yet implemented"

\* Fetch of a url source fails with the not-implemented error and changes nothing
UrlFetchFails ==
  (FetchStep /\ layerSrc.Type = TypeURL) =>
    /\ layerRes'.err = sNotImplemented
    /\ layerStage' = "abortFetch"
    /\ fs' = fs
    /\ clones' = clones

\* C10 as stated: Fetch of a url source fails with the not-implemented error
\* and writes nothing; a layer whose source string starts with "http://" or
\* "https://" gets through Parse and is stopped by Fetch.
C10_HttpLayerParses ==
  [][/\ UrlFetchFails
     /\ (ParseStep /\ IsPlainURL(layerUri)) =>
          (layerStage' = "parsed" /\ layerSrc'.Type = TypeURL)]_vars

\* C10: Fetch of a url source fails with the not-implemented error in every
\* state of the cache and writes nothing. A layer whose source string starts
\* with "http://" or "https://" and passes URL validation gets through Parse
\* as a url source and is stopped by Fetch; one that does not pass is stopped
\* by Parse.
C10_HttpLayerAborts ==
  [][/\ UrlFetchFails
     /\ (ParseStep /\ IsPlainURL(layerUri)) =>
          IF UrlParseOK(layerUri)
          THEN layerStage' = "parsed" /\ layerSrc'.Type = TypeURL
          ELSE layerStage' = "abortParse"
     /\ (FetchStep /\ IsPlainURL(layerUri)) => layerStage' = "abortFetch"]_vars

\* a url layer was stopped by Fetch while the cache held a clone
C10_Reached ==
  /\ layerStage = "abortFetch"
  /\ layerSrc.Type = TypeURL
  /\ layerRes.err = sNotImplemented
  /\ \E d \in fs : Len(d) > Len(CacheDir) /\ SubSeq(d, 1, Len(CacheDir)) = CacheDir

----------------------------------------------------------------------------
(* Claims about LoadManifest *)

\* C11: LoadManifest has three outcomes that are told apart. With no
\* scaffold.yaml it fails with the not-found error; with a scaffold.yaml that is
\* there but cannot be parsed it fails with another error; with one that parses
\* it succeeds whatever keys are missing, each missing key giving the zero
\* value (a manifest without a name is accepted).
C11_ManifestOutcomes ==
  mres.called =>
    /\ mdoc.kind = "absent" => mres.err = sManifestNotFound
    /\ mdoc.kind \in {"garbage", "mistyped", "unreadable"} =>
         (mres.err # "" /\ mres.err # sManifestNotFound)
    /\ mdoc.kind \in {"garbage", "mistyped"} => mres.err = sManifestInvalid
    /\ mdoc.kind = "yaml" =>
         /\ mres.err = ""
         /\ \A k \in ManifestKeys \ DOMAIN mdoc.body :
              /\ k = "name" => mres.manifest.Name = ""
              /\ k = "type" => mres.manifest.Type = ""
              /\ k = "variables" => mres.manifest.Variables = <<>>
              /\ k = "actions" => mres.manifest.Actions = <<>>
         /\ "name" \in DOMAIN mdoc.body => mres.manifest.Name = mdoc.body["name"]
         /\ "variables" \in DOMAIN mdoc.body => mres.manifest.Variables = mdoc.body["variables"]

\* a manifest with variables and without a name was loaded
C11_Reached ==
  /\ mres.called
  /\ mres.err = ""
  /\ mdoc.kind = "yaml"
  /\ "name" \notin DOMAIN mdoc.body
  /\ mres.manifest.Name = ""
  /\ mres.manifest.Variables = <<vPort, vLicense>>

----------------------------------------------------------------------------
(* Claims about the substitutions *)

\* name matches [A-Za-z_][A-Za-z0-9_]*
IsName(n) == n # sEmpty /\ IsNameStart(n[1]) /\ \A k \in 1..Len(n) : IsNameChar(n[k])

Without(s, chars) == \A k \in 1..Len(s) : s[k] \notin chars

Spaces(k) == [i \in 1..k |-> " "]

\* the "{{ n }}" tokens for n, with up to two blanks on either side
ContentTokens(n) == {sOpen \o Spaces(l) \o n \o Spaces(r) \o sClose : l \in 0..2, r \in 0..2}

\* the "__n__" token for n
PathToken(n) == sDunder \o n \o sDunder

\* s is tok with text before and after it that has none of chars in it
Around(s, tok, chars) ==
  {i \in 0..Len(s) : /\ At(s, i + 1, tok)
                     /\ Without(SubSeq(s, 1, i), chars)
                     /\ Without(SubSeq(s, i + Len(tok) + 1, Len(s)), chars)}

Replaced(s, i, tok, val) == SubSeq(s, 1, i) \o val \o SubSeq(s, i + Len(tok) + 1, Len(s))

\* the names that occur in s
NamesIn(s) == {n \in {SubSeq(s, a, b) : a \in 1..Len(s), b \in 1..Len(s)} : IsName(n)}

\* C13: for every bound name n that matches [A-Za-z_][A-Za-z0-9_]*, a
\* "{{ n }}" token in a file's content and a "__n__" token in a relative path
\* are replaced by bindings[n]; "# {{ project_name }}" becomes "# My Project"
\* and "__project_slug__" becomes "my_project".
C13_TokensReplaced ==
  substOut.done =>
    /\ tmplKind = "content" =>
         \A n \in DOMAIN binds : \A tok \in ContentTokens(n) :
           \A i \in Around(tmplText, tok, {"{", "}"}) :
             substOut.text = Replaced(tmplText, i, tok, binds[n])
    /\ tmplKind = "path" =>
         \A n \in DOMAIN binds :
           \A i \in Around(tmplText, PathToken(n), {"_"}) :
             substOut.text = Replaced(tmplText, i, PathToken(n), binds[n])
    /\ (tmplText = sReadmeText /\ binds = TestBinds) => substOut.text = sReadmeOut
    /\ (tmplKind = "path" /\ tmplText = sSlugDir /\ binds = TestBinds) => substOut.text = sMySlug

\* a name that neither begins nor ends with "_"
IsPlainName(n) == IsName(n) /\ n[1] # "_" /\ n[Len(n)] # "_"

\* what the code does: in a path, only a name that neither begins nor ends
\* with "_" is looked up as it is written
C13_PlainNamesReplaced ==
  substOut.done =>
    /\ tmplKind = "content" =>
         \A n \in DOMAIN binds : \A tok \in ContentTokens(n) :
           \A i \in Around(tmplText, tok, {"{", "}"}) :
             substOut.text = Replaced(tmplText, i, tok, binds[n])
    /\ tmplKind = "path" =>
         \A n \in {m \in DOMAIN binds : IsPlainName(m)} :
           \A i \in Around(tmplText, PathToken(n), {"_"}) :
             substOut.text = Replaced(tmplText, i, PathToken(n), binds[n])

\* the path token of a bound name that begins with "_" went through
\* substituteInPath
C13_Reached ==
  /\ substOut.done
  /\ tmplKind = "path"
  /\ tmplText = PathToken(nUnderX)
  /\ binds = nUnderX :> sOther
  /\ substOut.text # sOther

\* C14: a "{{ name }}" token in content or a "__name__" token in a path whose
\* name has no binding appears in the output as the same text, and what is
\* around it is rendered as usual.
C14_UnboundVerbatim ==
  substOut.done =>
    /\ tmplKind = "content" =>
         \A n \in NamesIn(tmplText) \ DOMAIN binds : \A tok \in ContentTokens(n) :
           \A i \in Around(tmplText, tok, {"{", "}"}) : substOut.text = tmplText
    /\ tmplKind = "path" =>
         \A n \in NamesIn(tmplText) \ DOMAIN binds :
           \A i \in Around(tmplText, PathToken(n), {"_"}) : substOut.text = tmplText

\* what the code does: a path token whose name, stripped of the "_" around it,
\* has no binding stays as it is
C14_UnboundAfterTrimVerbatim ==
  substOut.done =>
    /\ tmplKind = "content" =>
         \A n \in NamesIn(tmplText) \ DOMAIN binds : \A tok \in ContentTokens(n) :
           \A i \in Around(tmplText, tok, {"{", "}"}) : substOut.text = tmplText
    /\ tmplKind = "path" =>
         \A n \in NamesIn(tmplText) :
           TrimUnderscores(n) \notin DOMAIN binds =>
             \A i \in Around(tmplText, PathToken(n), {"_"}) : substOut.text = tmplText

\* the path token of an unbound name that begins with "_" was replaced by the
\* value of another name
C14_Reached ==
  /\ substOut.done
  /\ tmplKind = "path"
  /\ tmplText = PathToken(nUnderX)
  /\ binds = nX :> sValue
  /\ substOut.text = sValue

----------------------------------------------------------------------------
(* Claims about Process *)

\* the layer in hand has been rendered, to the end or up to an error
AfterRender == layerStage \in {"rendered", "abortRender"}

Produced == DOMAIN dest \ {<<>>}

HasDotName(path) == \E k \in 1..Len(path) : HasPrefix(path[k], sDot)

\* C15 as stated: after rendering into an empty destination, the destination
\* holds no file named scaffold.yaml and no entry produced from a source entry
\* whose name starts with "." or that lies beneath a dot-directory.
C15_NoManifestInDest ==
  AfterRender =>
    \A p \in Produced :
      /\ ~(~dest[p].dir /\ p[Len(p)] = sScaffoldYaml)
      /\ ~HasDotName(dest[p].from.path)

\* C15: after rendering into an empty destination, no entry of the
\* destination is produced from the scaffold.yaml at the root of the tree, from
\* a source entry whose name starts with ".", or from anything beneath a
\* dot-directory. (A scaffold.yaml deeper in the tree is rendered like any file,
\* and a path token can render to the name scaffold.yaml.)
C15_ManifestAndDotsLeftOut ==
  AfterRender =>
    \A p \in Produced :
      /\ dest[p].from.path # <<sScaffoldYaml>>
      /\ ~HasDotName(dest[p].from.path)

\* a tree with a scaffold.yaml, a dotfile and a dot-directory that holds
\* something was rendered to the end, and something came out
C15_Reached ==
  /\ layerStage = "rendered"
  /\ LET tree == templates[layerRes.path].tree
     IN  /\ \E e \in tree : e.path = <<sScaffoldYaml>> /\ ~e.dir
         /\ \E e \in tree : e.path = <<nDotG, nD, nK>>
         /\ \E e \in tree : e.path = <<nDotE>>
         /\ \E e \in tree : e.path = <<nD, nDotH>>
  /\ <<nD>> \in Produced
  /\ <<sValue>> \in Produced

----------------------------------------------------------------------------
(* Claims about the runs of init *)

RunDone == layerStage = "done"

Aborted == layerStage \in AbortStages

\* the lock record is in the output directory, written by runInit itself
LockWritten ==
  /\ <<sLockFile>> \in DOMAIN dest
  /\ dest[<<sLockFile>>].from = Origin(0, <<sLockFile>>)

\* C12: a run that completes successfully has written the lock record into
\* the output directory
C12_LockWritten == RunDone => LockWritten

\* a run of a base template and a module has completed
C12_Reached == RunDone /\ layers >= 2 /\ ~LockWritten

\* a step of RenderLayer
RenderStep ==
  /\ layerStage \in {"made", "collected"}
  /\ layerStage' \in {"rendered", "abortRender"}

\* the entries of the layer in hand that Process renders as files
FileEntries ==
  {e \in templates[layerRes.path].tree :
     ~e.dir /\ e.path # <<sScaffoldYaml>> /\ ~HasDotName(e.path)}

\* the output path of an entry
OutPath(e) == Join(<<>>, substituteInPath(RelString(e.path), binds))

\* the content an entry is rendered to
Rendered(e) == IF e.binary THEN e.text ELSE substituteVariables(e.text, binds)

\* the entry's output path holds a file an earlier layer produced
Collides(e) ==
  /\ OutPath(e) \in DOMAIN dest
  /\ ~dest[OutPath(e)].dir
  /\ dest[OutPath(e)].from.layer \in 1..(layers - 1)

Collisions == {e \in FileEntries : Collides(e)}

\* the destination without the files the layer collides with
WithoutCollisions ==
  [p \in DOMAIN dest \ {OutPath(e) : e \in Collisions} |-> dest[p]]

\* the layer renders without error into the destination when the files it
\* collides with are taken away
RendersOtherwise ==
  Process(templates[layerRes.path].tree, WithoutCollisions, binds, layers, 0).ok

\* the path holds what the layer in hand rendered for it
HoldsLater(p) ==
  /\ dest'[p].from.layer = layers
  /\ \E e \in FileEntries :
       e.path = dest'[p].from.path /\ OutPath(e) = p /\ dest'[p].text = Rendered(e)

\* C16: when a layer produces a file at an output path where an earlier layer
\* produced one, rendering the layer raises no error and afterwards the path
\* holds the content the later layer rendered; what the layer does not produce
\* stays as the earlier layers left it
C16_LaterLayerWins ==
  [][RenderStep /\ fault' = 0 /\ Collisions # {} /\ RendersOtherwise
       => /\ layerStage' = "rendered"
          /\ \A e \in Collisions : HoldsLater(OutPath(e))
          /\ \A p \in DOMAIN dest \ {OutPath(e) : e \in FileEntries} : dest'[p] = dest[p]]_vars

\* a module has failed on a file of the base template that is read-only, and
\* the file is as the base template rendered it
C16_Reached ==
  /\ layerStage = "abortRender"
  /\ layers >= 2
  /\ fault = 0
  /\ \E e \in FileEntries :
       /\ OutPath(e) \in DOMAIN dest
       /\ ~FileWritable(dest[OutPath(e)].mode)
       /\ dest[OutPath(e)].from.layer = 1

\* the files the layer collides with can be written
CollisionsWritable == \A e \in Collisions : FileWritable(dest[OutPath(e)].mode)

\* C16 for files that can be overwritten: the later layer wins without error
C16_WritableOverwritten ==
  [][RenderStep /\ fault' = 0 /\ Collisions # {} /\ RendersOtherwise /\ CollisionsWritable
       => /\ layerStage' = "rendered"
          /\ \A e \in Collisions : HoldsLater(OutPath(e))
          /\ \A p \in DOMAIN dest \ {OutPath(e) : e \in FileEntries} : dest'[p] = dest[p]]_vars

\* a module has written over a file of the base template
C16_Overwritten ==
  /\ layerStage = "rendered"
  /\ layers >= 2
  /\ \E p \in DOMAIN dest, q \in DOMAIN dest :
       dest[p].from.layer = 1 /\ ~dest[p].dir /\ dest[q].from.layer = layers /\ ~dest[q].dir
  /\ \E e \in FileEntries : dest[OutPath(e)].mode # e.mode

\* the assignments before the i-th that are to the same name
EarlierOf(i) == {j \in 1..(i - 1) : assignLog[j].name = assignLog[i].name}

\* the i-th assignment leaves the name with the value it had
KeepsValue(i) ==
  EarlierOf(i) # {} => assignLog[i].val = assignLog[Max(EarlierOf(i))].val

\* the assignments to a name
AssignedTo(n) == {j \in 1..Len(assignLog) : assignLog[j].name = n}

\* the map holds the last value assigned to each name
MapFollowsLog ==
  /\ DOMAIN binds = {assignLog[j].name : j \in 1..Len(assignLog)}
  /\ \A n \in DOMAIN binds : binds[n] = assignLog[Max(AssignedTo(n))].val

\* C17: once a name has a value, no later assignment of the run changes it
C17_NeverRebound ==
  /\ MapFollowsLog
  /\ \A i \in 1..Len(assignLog) : KeepsValue(i)

\* C17 for what follows the --var flags: a default or an answer is assigned
\* to an unbound name only, in the base template and in every module; the
\* only assignment that changes a value is a --var flag, which replaces the
\* seed (project_name, project_slug) and the value of an earlier flag with
\* the same key
C17_OnlyFlagsRebind ==
  /\ MapFollowsLog
  /\ \A i \in 1..Len(assignLog) :
       /\ assignLog[i].bound <=> EarlierOf(i) # {}
       /\ assignLog[i].by \in {"seed", "default", "prompt"} => ~assignLog[i].bound
       /\ ~KeepsValue(i) => assignLog[i].by = "override" /\ assignLog[i].layer = 1

\* a flag has replaced the seed and another flag, and a module's prompt has
\* bound a name after that
C17_Reached ==
  /\ \E i \in 1..Len(assignLog) :
       assignLog[i].name = nProjectName /\ assignLog[i].by = "override" /\ ~KeepsValue(i)
  /\ \E i \in 1..Len(assignLog) :
       assignLog[i].name = nAuthor /\ assignLog[i].by = "override" /\ ~KeepsValue(i)
  /\ \E i \in 1..Len(assignLog) : assignLog[i].by = "prompt" /\ assignLog[i].layer = 2
  /\ layerStage = "rendered"

\* the declarations of the manifest of the layer in hand
Declared == IF mres.called /\ mres.err = "" THEN mres.manifest.Variables ELSE <<>>

\* the keys of the --var flags that have a value
FlagKeys ==
  {SplitN2(cli.flags[i])[1] : i \in {j \in 1..Len(cli.flags) : Len(SplitN2(cli.flags[j])) = 2}}

\* prompting is disabled and the manifest of the layer in hand declares a
\* required variable that has no override, no default and no value
MissingRequired ==
  /\ cli.given
  /\ cli.noPrompt
  /\ \E i \in 1..Len(Declared) :
       /\ Declared[i].Required
       /\ Declared[i].Default = sEmpty
       /\ Declared[i].Name \notin FlagKeys
       /\ Declared[i].Name \notin DOMAIN binds

\* C18: with prompting disabled, a run whose manifest declares a required
\* variable without override and without default fails with the
\* missing-required-variable error when the variables of the layer are
\* collected: no layer is rendered with the variable unbound
C18_MissingRequiredFails ==
  MissingRequired => layerStage \in {"loaded", "abortRequired"}

\* the base template is rendered with its required variable unbound: the
\* token of the variable is in the output as it was in the template
C18_Reached ==
  /\ MissingRequired
  /\ layers = 1
  /\ layerStage = "rendered"
  /\ nPort \notin DOMAIN binds
  /\ dest[<<nF>>].text = sPortText

\* the last --var flag with the key n
LastFlag(n) ==
  LET at == {j \in 1..Len(cli.flags) :
               Len(SplitN2(cli.flags[j])) = 2 /\ SplitN2(cli.flags[j])[1] = n}
  IN  SplitN2(cli.flags[Max(at)])[2]

\* the name was bound before the layer in hand was collected
BoundBefore(n) ==
  \/ n \in {nProjectName, nProjectSlug}
  \/ \E j \in AssignedTo(n) : assignLog[j].layer < layers

\* the assignment that gave the name the value it has
BoundBy(n) == assignLog[Max(AssignedTo(n))].by

\* the value of a declared variable is chosen in the order override, answer,
\* default
ChosenInPriority(v) ==
  IF v.Name \in FlagKeys
  THEN v.Name \in DOMAIN binds /\ binds[v.Name] = LastFlag(v.Name) /\ BoundBy(v.Name) = "override"
  ELSE IF ~cli.noPrompt
  THEN v.Name \in DOMAIN binds /\ BoundBy(v.Name) = "prompt"
  ELSE IF v.Default # sEmpty
  THEN v.Name \in DOMAIN binds /\ binds[v.Name] = v.Default /\ BoundBy(v.Name) = "default"
  ELSE v.Name \notin DOMAIN binds

\* C19: once the variables of a layer are collected, every variable its
\* manifest declares that was unbound before has the --var override if there
\* is one, otherwise the answer to its prompt when prompting is enabled, and
\* otherwise its default
C19_PriorityOrder ==
  layerStage = "collected" =>
    \A i \in 1..Len(Declared) : ~BoundBefore(Declared[i].Name) => ChosenInPriority(Declared[i])

\* prompting is disabled and a module's variable with a default is left
\* unbound when the module is collected
C19_Reached ==
  /\ layerStage = "collected"
  /\ layers = 2
  /\ cli.noPrompt
  /\ \E i \in 1..Len(Declared) :
       /\ Declared[i].Default # sEmpty
       /\ Declared[i].Name \notin FlagKeys
       /\ Declared[i].Name \notin DOMAIN binds

\* prompting is enabled and a variable of the base template with a default
\* has the default without having been asked for
C19_DefaultBeforePrompt ==
  /\ layerStage = "collected"
  /\ layers = 1
  /\ ~cli.noPrompt
  /\ nAuthor \in DOMAIN binds
  /\ BoundBy(nAuthor) = "default"

\* the entries of the layer in hand in the order of the walk
Order == WalkOrder(templates[layerRes.path].tree)

\* the entries the walk cannot write: a directory or a read-only file is in
\* the way
BlockedAt ==
  {i \in 1..Len(Order) :
     /\ Order[i] \in FileEntries
     /\ OutPath(Order[i]) \in DOMAIN dest
     /\ dest[OutPath(Order[i])].dir \/ ~FileWritable(dest[OutPath(Order[i])].mode)}

\* where the walk of the step can have stopped
StopsAt == BlockedAt \cup (IF fault' # 0 THEN {fault'} ELSE {})

\* the entry is in the destination as the layer in hand wrote it
Written(e) ==
  /\ OutPath(e) \in DOMAIN dest'
  /\ dest'[OutPath(e)].from.layer = layers
  /\ ~dest'[OutPath(e)].dir

\* a stage that fails ends the run
FailureAborts ==
  /\ layerStage = "resolved" /\ Parse(layerUri).err # "" => layerStage' = "abortParse"
  /\ layerStage = "parsed" /\ layerRes'.err # "" => layerStage' = "abortFetch"
  /\ layerStage = "fetched" /\ LoadManifest(TemplateAt(layerRes.path).mdoc).err # ""
       => layerStage' = "abortLoad"
  /\ layerStage = "loaded" /\ layerStage' = "collected" /\ ~cli.noPrompt
       => \A i \in 1..Len(Declared) : Declared[i].Name \in DOMAIN binds'
  /\ layerStage = "collected" /\ layerStage' = "made" => dest' = FreshDest
  /\ RenderStep /\ layerStage' = "rendered" => fault' = 0 /\ \A e \in FileEntries : Written(e)

\* what is in the destination when a stage fails stays there
NoRollback ==
  layerStage' \in AbortStages =>
    /\ layerStage' # "abortRender" => dest' = dest
    /\ \A p \in DOMAIN dest :
         p \in DOMAIN dest' /\ (dest'[p] = dest[p] \/ dest'[p].from.layer = layers)
    /\ RenderStep /\ StopsAt # {} =>
         \A i \in 1..Len(Order) :
           Order[i] \in FileEntries /\ (\A s \in StopsAt : i < s) => Written(Order[i])

\* C20: a failure at any stage of a layer ends the run at once, no step
\* follows it, and what the layers before it and the part of the layer
\* already rendered wrote to the destination is left as written
C20_AbortNoRollback == [][~Aborted /\ FailureAborts /\ NoRollback]_vars

\* the second layer has failed half way: the destination holds a file of the
\* base template and the file the module wrote before it failed
C20_Reached ==
  /\ layerStage = "abortRender"
  /\ layers = 2
  /\ <<nF>> \in DOMAIN dest
  /\ dest[<<nF>>].from.layer = 1
  /\ <<nD>> \in DOMAIN dest
  /\ dest[<<nD>>].from.layer = 2
  /\ dest[<<nG>>].from.layer = 1

\* the template argument of the i-th layer of the run
LayerArg(i) == IF i = 1 THEN cli.base ELSE cli.modules[i - 1]

\* the scaffold.yaml of the i-th layer of the run
LayerDoc(i) ==
  LET src == Parse(ResolveIn(index.idx, LayerArg(i))).src
  IN  TemplateAt(Fetch(fs, src, homeOK, cwdOK, "ok", "ok").res.path).mdoc

\* the actions the manifests of the first n layers declare, in the order of
\* the layers
DeclaredUpTo[n \in 0..MaxLayers] ==
  IF n = 0 THEN <<>>
  ELSE DeclaredUpTo[n - 1] \o LoadManifest(LayerDoc(n)).manifest.Actions

AllDeclared == DeclaredUpTo[1 + Len(cli.modules)]

\* C21: at the end of a successful run every action of every layer has been
\* surfaced once, the base manifest's first and then each module's in the
\* order of the modules; nothing is surfaced before that, nor when the run
\* aborts
C21_AllActionsShown ==
  /\ RunDone => shown = AllDeclared
  /\ ~RunDone => shown = <<>>

\* a run with a module that declares a command has completed, and its
\* messages are printed without the command
C21_Reached ==
  /\ RunDone
  /\ layers >= 2
  /\ \E i \in 1..Len(AllDeclared) : AllDeclared[i].Type = "command"
  /\ \A i \in 1..Len(shown) : shown[i].Type = "message"
  /\ Len(shown) = 2

\* C21 for the actions of type message: they are printed once each at the end
\* of a successful run, in the order of the layers, and nothing is printed
\* before the last layer is rendered or when the run aborts
C21_MessagesShown ==
  /\ RunDone => shown = SelectSeq(AllDeclared, LAMBDA a : a.Type = "message")
  /\ ~RunDone => shown = <<>>

\* the first step of a run whose output directory is there already
StartsOnExisting == layerStage = "idle" /\ dest # EmptyMap

\* nothing is resolved, fetched or written by the step
NothingDone ==
  /\ dest' = dest
  /\ fs' = fs
  /\ calls' = calls
  /\ index' = index
  /\ layers' = 0

\* C22: a run whose output directory exists already fails with the
\* destination-exists error before anything is resolved, fetched or written,
\* and leaves the directory as it is; the check is not made again before a
\* module is rendered
C22_ExistsError ==
  [][/\ StartsOnExisting => layerStage' = "abortExists" /\ NothingDone
     /\ layerStage = "rendered" => layerStage' \in {"resolved", "done"}]_vars

\* C22 with the checks runInit makes first: a run whose output directory
\* exists already fails before anything is resolved, fetched or written and
\* leaves the directory as it is; the error is the destination-exists error
\* when the run has a project name, the project-name error when it has none
\* and prompting is disabled, and the error of the prompt when the prompt for
\* the name is interrupted. The check is not made again before a module is
\* rendered.
C22_ExistsStopsRun ==
  [][/\ StartsOnExisting =>
          /\ NothingDone
          /\ layerStage' = IF cli.project = sEmpty /\ cli.noPrompt THEN "abortName"
                           ELSE IF cli'.project = sEmpty THEN "abortPrompt"
                           ELSE "abortExists"
     /\ layerStage = "rendered" => layerStage' \in {"resolved", "done"}]_vars

\* a run has stopped on an empty directory that was there
C22_Reached ==
  /\ layerStage = "abortExists"
  /\ dest = FreshDest
  /\ calls = 0
  /\ layers = 0

\* the tree of the i-th layer of the run
LayerTree(i) ==
  LET src == Parse(ResolveIn(index.idx, LayerArg(i))).src
  IN  TemplateAt(Fetch(fs, src, homeOK, cwdOK, "ok", "ok").res.path).tree

\* the entries of the destination that a layer wrote
WrittenByLayers == {p \in DOMAIN dest : dest[p].from.layer >= 1}

\* C23: every file and directory of the destination has the permission bits
\* of the source entry whose rendering last wrote it, also when a later layer
\* wrote over what an earlier layer produced with other permission bits
C23_ModeOfLastWriter ==
  \A p \in WrittenByLayers :
    \E e \in LayerTree(dest[p].from.layer) :
      e.path = dest[p].from.path /\ dest[p].mode = e.mode

\* a module has written its executable file over the base template's file,
\* which keeps the permission bits the base template gave it
C23_Reached ==
  /\ layers = 2
  /\ layerStage = "rendered"
  /\ <<nF>> \in DOMAIN dest
  /\ dest[<<nF>>].from = Origin(2, <<nF>>)
  /\ dest[<<nF>>].mode = "644"
  /\ \E e \in LayerTree(2) : e.path = <<nF>> /\ e.mode = "755"

\* the variables of the layer in hand have been collected
Collected == layerStage \in {"collected", "made", "rendered", "abortRender"}

\* there is a value for the variable: an override, an answer or a default
HasSource(v) == v.Name \in FlagKeys \/ ~cli.noPrompt \/ v.Default # sEmpty

\* C24: for the base template and for each module, every variable the
\* layer's manifest declares that has an override, an answer (prompting
\* enabled) or a non-empty default is bound before the layer is rendered
C24_CollectedBeforeRender ==
  Collected => \A i \in 1..Len(Declared) : HasSource(Declared[i]) => Declared[i].Name \in DOMAIN binds

\* with prompting disabled a module is rendered with its variable unbound
\* although the variable has a default: the module's file holds the token
C24_Reached ==
  /\ layers = 2
  /\ layerStage = "rendered"
  /\ cli.noPrompt
  /\ \E i \in 1..Len(Declared) : Declared[i].Name = nLevel /\ Declared[i].Default = sThree
  /\ nLevel \notin DOMAIN binds
  /\ dest[<<nF>>].from = Origin(2, <<nF>>)
  /\ dest[<<nF>>].text = sLevelText

----------------------------------------------------------------------------
(* Claims about the git cache *)

SameSource(g, h) == g.src.URL = h.src.URL /\ g.src.Ref = h.src.Ref

\* C25: two git sources that differ in URL or in ref never map to the same
\* cache directory, so no Fetch returns as a cache hit the clone that was
\* made for a different (url, ref)
C25_OneDirPerSource ==
  \A g \in history, h \in history :
    cachePathFor(g.src) = cachePathFor(h.src) => SameSource(g, h)

\* the source git:a_a was never cloned, and its Fetch returned as a hit the
\* directory that the clone of git:a#a made
C25_Reached ==
  \E g \in history, h \in history :
    /\ g.ran /\ g.src.URL = <<"a">> /\ g.src.Ref = <<"a">>
    /\ ~h.ran /\ h.src.URL = <<"a", "_", "a">> /\ h.src.Ref = sEmpty
    /\ h.path = g.path
    /\ \A k \in history : k.ran => ~SameSource(k, h)

----------------------------------------------------------------------------
(* Invocations of scaffold that fetch one git source at the same time. Each
   is a process of its own running fetchGit; they share the cache directory
   and nothing else. One action per step of fetchGit that touches the file
   system: os.Stat, os.MkdirAll, and git clone, which creates the
   destination when it starts and has filled it when it ends *)

Invocations == {1, 2, 3}

\* an existence test that waits while a clone is in progress
CacheHitWhenIdle(f, src) ==
  /\ cachePathFor(src) \in f
  /\ \A j \in Invocations : race.pc[j] # "cloning"

\* the existence test of fetchGit
CacheHit(f, src) == cachePathFor(src) \in f

\* what is at the cache path
PathState ==
  IF cachePathFor(race.src) \notin fs THEN "absent"
  ELSE IF race.filled THEN "complete" ELSE "partial"

Returned(src) == FetchOK(PathString(resolveSubdir(cachePathFor(src), src.Subdir)))

\* os.Stat(cachePath), and the return on a hit
RaceStat(i) ==
  /\ race.on
  /\ race.pc[i] = "start"
  /\ LET hit == CacheHit(fs, race.src)
     IN  race' = [race EXCEPT !.pc[i] = IF hit THEN "done" ELSE "missed",
                              !.res[i] = IF hit THEN Returned(race.src) ELSE @,
                              !.saw[i] = PathState]
  /\ UNCHANGED <<fs, homeOK, cwdOK, layerUri, layerStage, layerSrc, layerRes, layers, clones,
                 history, parseVars, regVars, manifestVars, substVars, runVars>>

\* os.MkdirAll of the parent of the cache path
RaceMkdir(i, mk) ==
  /\ race.on
  /\ race.pc[i] = "missed"
  /\ IF mk = "ok"
     THEN /\ fs' = fs \cup Prefixes(Parent(cachePathFor(race.src)))
          /\ race' = [race EXCEPT !.pc[i] = "ready"]
     ELSE /\ fs' = fs
          /\ race' = [race EXCEPT !.pc[i] = "done",
                                  !.res[i] = FetchErr("failed to create cache directory")]
  /\ UNCHANGED <<homeOK, cwdOK, layerUri, layerStage, layerSrc, layerRes, layers, clones,
                 history, parseVars, regVars, manifestVars, substVars, runVars>>

\* git clone starts: it refuses a destination that is not empty, and creates
\* the destination otherwise. Whether the unfinished clone of another
\* invocation has put anything there yet is open (empty)
RaceCloneStart(i, empty) ==
  /\ race.on
  /\ race.pc[i] = "ready"
  /\ PathState = "partial" \/ empty
  /\ IF PathState = "complete" \/ (PathState = "partial" /\ ~empty)
     THEN /\ fs' = fs
          /\ race' = [race EXCEPT !.pc[i] = "done", !.res[i] = FetchErr("git clone failed")]
     ELSE /\ fs' = fs \cup {cachePathFor(race.src)}
          /\ race' = [race EXCEPT !.pc[i] = "cloning"]
  /\ UNCHANGED <<homeOK, cwdOK, layerUri, layerStage, layerSrc, layerRes, layers, clones,
                 history, parseVars, regVars, manifestVars, substVars, runVars>>

\* git clone ends: with the repository in place, or with an error after
\* removing the destination
RaceCloneEnd(i, cl) ==
  /\ race.on
  /\ race.pc[i] = "cloning"
  /\ IF cl = "ok"
     THEN /\ fs' = fs \cup {cachePathFor(race.src)}
          /\ race' = [race EXCEPT !.pc[i] = "done", !.res[i] = Returned(race.src),
                                  !.filled = TRUE]
     ELSE /\ fs' = fs \ {cachePathFor(race.src)}
          /\ race' = [race EXCEPT !.pc[i] = "done", !.res[i] = FetchErr("git clone failed"),
                                  !.filled = FALSE]
  /\ UNCHANGED <<homeOK, cwdOK, layerUri, layerStage, layerSrc, layerRes, layers, clones,
                 history, parseVars, regVars, manifestVars, substVars, runVars>>

RaceSources == {Parse(u).src : u \in {sGitA, sGitARefA, sGitASubA}}

InitRace ==
  /\ ParseIdle
  /\ RegIdle
  /\ fs = BaseDirs
  /\ homeOK = TRUE
  /\ cwdOK = TRUE
  /\ layerUri = sEmpty
  /\ layerStage = "idle"
  /\ layerSrc = NoSource
  /\ layerRes = NotFetched
  /\ layers = 0
  /\ clones = 0
  /\ history = {}
  /\ ManifestIdle
  /\ SubstIdle
  /\ RunIdle
  /\ \E src \in RaceSources :
       race = [on |-> TRUE, src |-> src, filled |-> FALSE,
               pc |-> [i \in Invocations |-> "start"],
               res |-> [i \in Invocations |-> NotFetched],
               saw |-> [i \in Invocations |-> "none"]]

NextRace ==
  \/ \E i \in Invocations : RaceStat(i)
  \/ \E i \in Invocations, mk \in FetchOutcomes : RaceMkdir(i, mk)
  \/ \E i \in Invocations, empty \in BOOLEAN : RaceCloneStart(i, empty)
  \/ \E i \in Invocations, cl \in FetchOutcomes : RaceCloneEnd(i, cl)

SpecRace == InitRace /\ [][NextRace]_vars

----------------------------------------------------------------------------
(* Claims about concurrent fetches *)

Missed(i) == race.saw[i] = "absent"

\* C26: nothing serialises invocations that fetch the same uncached git
\* source: the existence test answers by what is at the path at that
\* moment, a miss when nothing is there and a hit when anything is there,
\* finished or not, and neither the test nor the start of the clone ever
\* waits for another invocation
C26_NothingSerialises ==
  race.on =>
    \A i \in Invocations :
      /\ race.pc[i] = "start" => ENABLED RaceStat(i)
      /\ race.pc[i] = "ready" => ENABLED (\E empty \in BOOLEAN : RaceCloneStart(i, empty))
      /\ race.pc[i] \in {"missed", "ready", "cloning"} => race.saw[i] = "absent"
      /\ race.saw[i] \in {"partial", "complete"} =>
           race.pc[i] = "done" /\ race.res[i] = Returned(race.src)

\* two invocations saw a miss and both are cloning into the one path, and a
\* third saw the path of their unfinished clone and returned it as a hit
C26_Reached ==
  /\ race.on
  /\ Missed(1) /\ race.pc[1] = "cloning"
  /\ Missed(2) /\ race.pc[2] = "cloning"
  /\ race.saw[3] = "partial"
  /\ race.pc[3] = "done"
  /\ race.res[3] = Returned(race.src)
  /\ ~race.filled

----------------------------------------------------------------------------
(* One Registry across the layers of a run, while the files it loads from
   change: runInit makes the Registry once (init.go:159) and asks it for the
   base template and for every module *)

\* the index after somebody has moved the module api
MovedIndex ==
  [RunIndex EXCEPT !.Version = "2",
                   !.Community = (nApi :> [Source |-> sFile \o sSecondDir,
                                           Description |-> "moved"])]

SessionCommands ==
  {Command(sMyApp, <<"a">>, ms, np, <<>>) :
     ms \in {<<nApi>>, <<sFile \o sSecondDir, nApi>>}, np \in BOOLEAN}

SessionCaches == {NoCache, CacheFile(Garbage, 0), CacheFile(Marshal(MovedIndex), 0)}

SessionNets ==
  {[remote |-> Down, w |-> "failed"]}
    \cup {[remote |-> Yaml(i, TRUE), w |-> w] : i \in {RunIndex, MovedIndex}, w \in {"ok", "failed"}}

InitSession ==
  /\ ParseIdle
  /\ overrideEnv \in BOOLEAN
  /\ overrideFile = Yaml(RunIndex, FALSE)
  /\ cache \in {NoCache, CacheFile(Marshal(RunIndex), 0)}
  /\ embedded = Marshal(IdxEmpty)
  /\ index = NilIndex
  /\ trail = <<>>
  /\ lastSave = NoSave
  /\ result = NoResult
  /\ calls = 0
  /\ fs = RunDirs
  /\ homeOK = TRUE
  /\ cwdOK = TRUE
  /\ layerUri = sEmpty
  /\ layerStage = "idle"
  /\ layerSrc = NoSource
  /\ layerRes = NotFetched
  /\ layers = 0
  /\ clones = 0
  /\ history = {}
  /\ ManifestIdle
  /\ SubstIdle
  /\ templates = RunTemplates
  /\ cli \in SessionCommands
  /\ dest = EmptyMap
  /\ assignLog = <<>>
  /\ fault = 0
  /\ actions = <<>>
  /\ shown = <<>>
  /\ RaceIdle

\* between two layers the override is set, unset or rewritten and the cache
\* file is removed, damaged or replaced
ChangeIndexes ==
  /\ layerStage = "rendered"
  /\ overrideEnv' \in BOOLEAN
  /\ overrideFile' \in {Absent, Yaml(MovedIndex, FALSE)}
  /\ cache' \in SessionCaches
  /\ <<overrideEnv', overrideFile', cache'>> # <<overrideEnv, overrideFile, cache>>
  /\ UNCHANGED <<embedded, index, trail, lastSave, result, calls, parseVars, fetchVars,
                 laterVars>>

NextSession ==
  \/ \E name \in {sMyApp}, pick \in {nApp}, stopAt \in 0..2 : BeginRun(name, pick, stopAt)
  \/ \E net \in SessionNets : ResolveLayer(net.remote, net.w)
  \/ \E net \in SessionNets : List(net.remote, net.w)
  \/ ParseLayer
  \/ \E mk \in FetchOutcomes, cl \in FetchOutcomes : FetchLayer(mk, cl)
  \/ LoadLayer
  \/ \E ans \in AnswerMaps, stopAt \in 0..3 : CollectLayer(ans, stopAt)
  \/ \E ok \in BOOLEAN : MkOutDir(ok)
  \/ \E failAt \in 0..MaxEntries : RenderLayer(failAt)
  \/ FinishRun
  \/ ChangeIndexes

SpecSession == InitSession /\ [][NextSession]_vars

----------------------------------------------------------------------------
(* Claims about the Registry of a run *)

\* a call of Resolve or List on a Registry that holds an index
LaterCall == calls' = calls + 1 /\ index.set

\* C27: a Registry loads its index at most once: a Resolve or List on a
\* Registry that holds an index answers from that index and consults no
\* tier again, whatever has happened meanwhile to the override file, to the
\* cache file or to the remote
C27_LoadedOnce ==
  [][LaterCall =>
       /\ index' = index
       /\ trail' = trail
       /\ cache' = cache
       /\ lastSave' = lastSave
       /\ result'.err = ""
       /\ result'.op = "Resolve" => result'.val = ResolveIn(index.idx, result'.arg)
       /\ result'.op = "List" => result'.list = ListIn(index.idx)
    ]_vars

\* the module api was resolved from the index loaded for the base template,
\* after the override file and the cache file had come to hold an index that
\* has api elsewhere
C27_Reached ==
  /\ layers = 2
  /\ layerStage = "resolved"
  /\ cli.modules[1] = nApi
  /\ result.arg = nApi
  /\ index = Loaded(RunIndex)
  /\ layerUri = sFile \o sModuleDir
  /\ overrideEnv
  /\ overrideFile = Yaml(MovedIndex, FALSE)
  /\ cache = CacheFile(Marshal(MovedIndex), 0)
  /\ ResolveIn(MovedIndex, nApi) = sFile \o sSecondDir

----------------------------------------------------------------------------
(* Claims about what a load writes *)

\* C28: a Resolve or List that loads the index from the override file, from
\* the cache or from the embedded copy, or that loads nothing, leaves the
\* cache file as it is, content and age; the cache file is written, and a
\* write of it attempted, only in a load that fetched the index from the
\* remote
C28_OnlyRemoteWritesCache ==
  [][CallStep =>
       /\ (cache' # cache \/ lastSave' # lastSave) => LoadedFromRemote
       /\ (LoadStep /\ LastTier(trail').tier \in {"override", "cache", "embedded"}) =>
            /\ cache' = cache
            /\ lastSave' = lastSave
    ]_vars

\* a Registry has loaded the index an earlier one fetched from a cache file
\* twelve hours old, and the file is still twelve hours old
C28_Reached ==
  /\ calls = 2
  /\ trail = <<Step("cache", TRUE)>>
  /\ cache.present
  /\ cache.age = TickHours
  /\ lastSave.outcome = "ok"
  /\ cache.doc = Marshal(lastSave.idx)
  /\ index = Loaded(cache.doc.body)

----------------------------------------------------------------------------
(* Claims about when a layer is rendered *)

\* what earlier layers and others have put in the output directory is there
\* unchanged after the step, unless the layer in hand has written the path
EarlierKept ==
  \A p \in DOMAIN dest :
    /\ p \in DOMAIN dest'
    /\ dest'[p] = dest[p] \/ (dest'[p].from.layer = layers /\ dest[p].from.layer # layers)

----------------------------------------------------------------------------
(* Claims about when the output directory is made *)

\* the base template is resolved, parsed, fetched, its manifest loaded and
\* its variables collected
BaseCollected ==
  /\ layers >= 1
  /\ index.set \/ trail # <<>>
  /\ layerSrc # NoSource
  /\ layerRes.err = ""
  /\ mres.err = ""
  /\ layerStage \in {"collected", "made"}

\* a stage of the base template has failed
BaseFailed ==
  \/ layers <= 1 /\ layerStage \in {"abortParse", "abortFetch", "abortLoad"}
  \/ layers = 1 /\ layerStage = "abortPrompt"

\* C30: the output directory is made, and anything written to it, only once
\* the base template is resolved, parsed, fetched, its manifest loaded and its
\* variables collected; when one of these stages fails the output directory
\* does not exist after the run
C30_MadeAfterBaseCollected ==
  [][/\ dest' # dest => BaseCollected
     /\ BaseFailed' => dest' = EmptyMap
    ]_vars

\* the base template was resolved, parsed and fetched, its manifest could not
\* be loaded, and there is no output directory
C30_Reached ==
  /\ layers = 1
  /\ layerStage = "abortLoad"
  /\ index.set
  /\ layerSrc # NoSource
  /\ layerRes.err = ""
  /\ mres.err # ""
  /\ dest = EmptyMap
  /\ shown = <<>>

============================================================================
